---- MODULE Spec2Model ----
(***************************************************************************)
(* A model of the retrieval-and-synthesis pipeline of the support agent:   *)
(* AgenticAISystem.ask_question and load_documents (src/src/core.py), the  *)
(* VectorStore (src/src/vector_store.py), the WebSearchProvider            *)
(* (src/src/web_search.py), the chunker and DocumentProcessor              *)
(* (src/src/document_processor.py) and the LLMProvider / TaskClassifier    *)
(* (src/src/llm_provider.py).                                              *)
(*                                                                         *)
(* Several specifications share the module.  Spec runs sequences of        *)
(* ask_question calls; SpecLoad runs sequences of load_documents calls     *)
(* against a small file system; SpecChunk applies create_chunks and        *)
(* SpecClassify applies TaskClassifier.classify to the inputs of the       *)
(* bounds; SpecAdd interleaves two add_document calls on one VectorStore;  *)
(* SpecCli is one run of the interactive program (src/src/cli.py);         *)
(* SpecProcess runs process_document on one file, SpecProvider the         *)
(* construction of an LLMProvider, and SpecOverlap two ask_question calls  *)
(* that search the web at the same time.                                   *)
(* Scores are kept in tenths (score 1.0 is 10), so that 1.0 - 0.1*i is     *)
(* the integer 10 - i.                                                     *)
(***************************************************************************)
EXTENDS Integers, Sequences, FiniteSets, TLC

(***************************************************************************)
(* Bounds of the model.                                                    *)
(***************************************************************************)
\* ask_question calls in one behaviour of Spec
MaxCalls == 2
\* the largest max_results a caller passes
MaxResults == 12
\* result containers on the longest page an engine returns
MaxContainers == 12
\* the largest distance (in tenths) the index reports for a hit
MaxDist == 15
\* hits the index returns to one query in Spec
MaxHits == 2
\* load_documents calls in one behaviour of SpecLoad
MaxLoads == 2
\* writes to the files of the directory in one behaviour of SpecLoad
MaxTouches == 1
\* restarts of the process (with other chunk settings) in SpecLoad
MaxRestarts == 1
\* calls of classify on one question in SpecClassify
MaxClassify == 2
\* words of the longest document two callers add at once in SpecAdd
MaxWords == 4
\* characters of the longest text handed to create_chunks in SpecChunk
MaxText == 9
\* the largest chunk_size in SpecChunk (the overlap goes one beyond it)
MaxSize == 3
\* words of the longest file handed to process_document in SpecProcess
MaxFileWords == 2

(***************************************************************************)
(* models.py                                                               *)
(***************************************************************************)
None == "none"

DOCUMENT_QUERY == "document_query"
WEB_SEARCH == "web_search"
HYBRID_SEARCH == "hybrid_search"
SUMMARIZATION == "summarization"
ANALYSIS == "analysis"

TaskType == {DOCUMENT_QUERY, WEB_SEARCH, HYBRID_SEARCH, SUMMARIZATION, ANALYSIS}

SourceType == {"document", "web"}

\* SearchResult(content, source, score, metadata, source_type, rank); the
\* content and the title of a result are determined by its source here, and
\* of the metadata the model keeps who produced the result (the index or the
\* search engine).
SearchResult(type, source, score, rank, producer) ==
    [source_type |-> type, source |-> source, score |-> score, rank |-> rank,
     metadata |-> producer]

\* The dataclass defaults of QueryRequest.
DefaultMaxResults == 5

\* QueryRequest(question=question, **kwargs): the dataclass takes the four
\* optional fields and checks no types; a keyword it does not know is a
\* TypeError.  kw.extra says that the caller passed such a keyword.
QueryRequest(question, kw) ==
    IF kw.extra
    THEN [raised |-> TRUE]
    ELSE [raised |-> FALSE,
          question |-> question,
          task_type |-> kw.task_type,
          max_results |-> kw.max_results,
          include_web |-> kw.include_web,
          include_documents |-> kw.include_documents]

(***************************************************************************)
(* llm_provider.py                                                         *)
(***************************************************************************)
SummaryCues == {"summarize", "summary", "overview"}
WebCues == {"current", "latest", "news", "market"}
DocumentCues == {"contract", "document", "clause", "agreement"}

\* A question is a string, known by the set of the words of interest its
\* text contains, or a value that is no string (it has no lower()).
Question(words) == [is_str |-> TRUE, words |-> words]
NotAString == [is_str |-> FALSE, words |-> {}]

\* str.lower() on the words of the model: three of them are written with
\* capitals.
lower(word) ==
    CASE word = "Summarize" -> "summarize"
      [] word = "NEWS" -> "news"
      [] word = "Contract" -> "contract"
      [] OTHER -> word

\* A variant that looks for the document cues before the web cues.
classify_documents_first(query) ==
    IF ~query.is_str THEN [raised |-> TRUE, task_type |-> None]
    ELSE LET query_lower == {lower(w) : w \in query.words}
         IN  [raised |-> FALSE,
              task_type |->
                 IF query_lower \cap SummaryCues # {} THEN SUMMARIZATION
                 ELSE IF query_lower \cap DocumentCues # {} THEN DOCUMENT_QUERY
                 ELSE IF query_lower \cap WebCues # {} THEN WEB_SEARCH
                 ELSE HYBRID_SEARCH]

\* TaskClassifier.classify: the first list with a word in the lowercased
\* question wins; query.lower() raises for a query that is no string.
classify(query) ==
    IF ~query.is_str THEN [raised |-> TRUE, task_type |-> None]
    ELSE LET query_lower == {lower(w) : w \in query.words}
         IN  [raised |-> FALSE,
              task_type |->
                 IF query_lower \cap SummaryCues # {} THEN SUMMARIZATION
                 ELSE IF query_lower \cap WebCues # {} THEN WEB_SEARCH
                 ELSE IF query_lower \cap DocumentCues # {} THEN DOCUMENT_QUERY
                 ELSE HYBRID_SEARCH]

\* LLMProvider._get_system_prompt: the base prompt and its three suffixes.
BasePrompt == "base"

get_system_prompt(task_type) ==
    IF task_type = SUMMARIZATION THEN "base+summaries"
    ELSE IF task_type = WEB_SEARCH THEN "base+web"
    ELSE IF task_type = ANALYSIS THEN "base+analysis"
    ELSE BasePrompt

\* LLMProvider.generate_response: the prompt is the one of request.task_type;
\* a failure of the chat-completion call is caught and becomes the answer.
AnswerText == "answer"
LlmErrorText == "I encountered an error generating the response"

\* A variant whose handler logs the failure and returns nothing.
generate_response_without_answer(request, llmFails) ==
    [prompt |-> get_system_prompt(request.task_type),
     answer |-> IF llmFails THEN None ELSE AnswerText]

generate_response(request, llmFails) ==
    [prompt |-> get_system_prompt(request.task_type),
     answer |-> IF llmFails THEN LlmErrorText ELSE AnswerText]

(***************************************************************************)
(* Helpers (Python's slicing, max and min).                                *)
(***************************************************************************)
Max(a, b) == IF a >= b THEN a ELSE b
Min(a, b) == IF a <= b THEN a ELSE b

\* s[:n] for an integer n >= 0
Take(s, n) == SubSeq(s, 1, Min(n, Len(s)))

\* An argument meant to be an integer: the integer, or a value that is none
\* (a string, say), with which every comparison and every slice is a
\* TypeError.
IntArg(n) == [is_int |-> TRUE, n |-> n]
NonInt == [is_int |-> FALSE, n |-> 0]
IsInt(a) == a.is_int

\* What an external call does: it raises, or it returns a value.
Raises == [kind |-> "error", value |-> <<>>]
Returns(v) == [kind |-> "value", value |-> v]

(***************************************************************************)
(* vector_store.py: VectorStore.search                                     *)
(***************************************************************************)
\* What collection.query returns: the hits nearest first, each a file name
\* and a distance in tenths.  It raises for n_results < 1 or no integer.
\* similarity_score = max(0, 1 - distance)
similarity_score(distance) == Max(0, 10 - distance)

\* Whether that call meets an exception (all of them are caught inside):
\* `outcome` is Raises (the encoder or the index raised) or Returns(hits).
VectorStore_search_failed(outcome, max_results) ==
    \/ outcome.kind = "error"
    \/ ~IsInt(max_results)
    \/ max_results.n < 1

\* A variant that returns what it holds when the exception comes.
VectorStore_search_partial(outcome, max_results) ==
    IF VectorStore_search_failed(outcome, max_results)
    THEN <<SearchResult("document", "lease.txt", 0, 1, "index")>>
    ELSE LET hits == Take(outcome.value, max_results.n)
         IN  [i \in 1..Len(hits) |->
                 SearchResult("document", hits[i].filename,
                              similarity_score(hits[i].distance), i, "index")]

\* VectorStore.search: every exception ends in `return []`.
VectorStore_search(outcome, max_results) ==
    IF VectorStore_search_failed(outcome, max_results) THEN <<>>
    ELSE LET hits == Take(outcome.value, max_results.n)
         IN  [i \in 1..Len(hits) |->
                 SearchResult("document", hits[i].filename,
                              similarity_score(hits[i].distance), i, "index")]

(***************************************************************************)
(* web_search.py                                                           *)
(***************************************************************************)
\* A page is the sequence of its result containers: 0 is a container that
\* lacks the title or the snippet element, u > 0 one whose link is URL u.
Malformed == 0

RECURSIVE ParseFrom(_, _, _, _, _)
\* The loop over enumerate(result_divs): container i (from 0) that is well
\* formed becomes a result with score 1.0 - 0.1*i and rank i + 1 + offset.
ParseFrom(divs, i, offset, engine, acc) ==
    IF i >= Len(divs) THEN acc
    ELSE ParseFrom(divs, i + 1, offset, engine,
                   IF divs[i + 1] = Malformed THEN acc
                   ELSE Append(acc, SearchResult("web", divs[i + 1], 10 - i,
                                                 i + 1 + offset, engine)))

\* What an engine answers: the request raises, the status is not 200, or
\* the page arrives.
NoAnswer == [kind |-> "error", value |-> <<>>]
BadStatus == [kind |-> "status", value |-> <<>>]
Page(containers) == [kind |-> "value", value |-> containers]

\* WebSearchProvider._search_duckduckgo.  Slicing the containers by a
\* max_results that is no integer raises, like a failed request.
search_duckduckgo(outcome, max_results) ==
    IF outcome.kind = "error" THEN [raised |-> TRUE, results |-> <<>>]
    ELSE IF outcome.kind = "status" THEN [raised |-> FALSE, results |-> <<>>]
    ELSE IF ~IsInt(max_results) THEN [raised |-> TRUE, results |-> <<>>]
    ELSE [raised |-> FALSE,
          results |-> ParseFrom(Take(outcome.value, max_results.n), 0, 0,
                                "duckduckgo", <<>>)]

\* WebSearchProvider._search_bing: the same with rank offset 10, and with
\* every exception caught inside (it returns []).
search_bing(outcome, max_results) ==
    IF outcome.kind # "value" THEN <<>>
    ELSE ParseFrom(Take(outcome.value, max_results), 0, 10, "bing", <<>>)

RECURSIVE UniqueFrom(_, _, _, _)
\* The dedup loop of WebSearchProvider.search.
UniqueFrom(results, i, max_results, unique) ==
    IF i > Len(results) THEN unique
    ELSE UniqueFrom(results, i + 1, max_results,
            IF /\ \A j \in 1..Len(unique) : unique[j].source # results[i].source
               /\ Len(unique) < max_results
            THEN Append(unique, results[i])
            ELSE unique)

\* A variant that truncates without looking at the sources.
unique_results_truncated(results, max_results) == Take(results, max_results)

unique_results(results, max_results) == UniqueFrom(results, 1, max_results, <<>>)

\* A variant that asks engine B only to top up what engine A returned.
bing_wanted_to_top_up(results, max_results) ==
    results # <<>> /\ Len(results) < max_results

\* A variant that asks engine B whatever engine A returned.
bing_wanted_always(results, max_results) == TRUE

\* `if len(results) < max_results`: whether engine B is asked.
bing_wanted(results, max_results) == Len(results) < max_results

(***************************************************************************)
(* core.py: AgenticAISystem.ask_question                                   *)
(***************************************************************************)
VARIABLES
    pc,            \* where the ask_question call in flight stands
    request,       \* the QueryRequest of the call
    task_type,     \* the classifier's result
    all_results,   \* the combined result list
    results,       \* WebSearchProvider.search: the list being collected
    web_results,   \* what search returned inside the `async with`
    pending,       \* an exception is propagating out of the `async with`
    raisedAt,      \* the stage whose exception reached the handler, or None
    caught,        \* the stages whose exception a component caught itself
    context,       \* the results put into the context block, or NoContext
    promptSent,    \* the system prompt of the chat-completion request
    response,      \* the mapping ask_question returned
    sessions,      \* every ClientSession created so far: "open" or "closed"
    self_session,  \* WebSearchProvider.session: 0 for None, else an index
    calls,         \* ask_question calls started
    docCalls,      \* VectorStore.search calls of the call in flight
    webCalls,      \* WebSearchProvider.search calls of the call in flight
    httpCalls,     \* engine requests of the call in flight
    asked,         \* those requests in order: the engine and its max_results
    llmCalls       \* chat-completion requests of the call in flight

askVars == <<pc, request, task_type, all_results, results, web_results, pending,
             raisedAt, caught, context, promptSent, response, sessions,
             self_session, calls, docCalls, webCalls, httpCalls, asked,
             llmCalls>>

\* The state of load_documents, of the registry and of the vector store.
VARIABLES
    fs,            \* the files of the documents directory
    settings,      \* AppSettings.chunk_size and chunk_overlap
    documents,     \* AgenticAISystem.documents, the registry
    index,         \* the entries of the collection, in insertion order
    lpc,           \* where the load_documents call in flight stands
    lpath,         \* its path argument
    file_paths,    \* the files it still has to process
    found,         \* the files it discovered
    lresults,      \* its results mapping
    lraised,       \* the exception it raised, or None
    processed,     \* the files it handed to process_document
    unindexed,     \* the files whose add_document met an exception
    reloaded,      \* the files it processed whose Document was registered
    readded,       \* the entries it added for those files
    storeCalls,    \* the encoder and insert calls of its last add_document
    loads,         \* load_documents calls started
    touches,       \* writes to the files so far
    restarts       \* restarts of the process

loadVars == <<fs, settings, documents, index, lpc, lpath, file_paths, found,
              lresults, lraised, processed, unindexed, reloaded, readded,
              storeCalls, loads, touches, restarts>>

\* The state of the chunker at work on one text, of the interactive
\* program, and of add_document calls in flight on one VectorStore.
VARIABLES
    chunker,       \* create_chunks: its arguments and what it returned
    cli,           \* cli.main: where it stands and why it ended
    adders,        \* the add_document calls in flight, and the store's rule
    classifier,    \* TaskClassifier.classify: its argument and its results
    processing,    \* process_document at work on one file
    provider,      \* LLMProvider.__init__: the probes of the candidates
    inflight       \* two ask_question calls in flight on one provider

sideVars == <<chunker, cli, adders, classifier, processing, provider, inflight>>

NoRequest == [raised |-> TRUE]
NoResponse == [answer |-> None]
NoContext == [text |-> "No relevant context found.", parts |-> <<>>]

\* `if request.include_documents and task_type != TaskType.WEB_SEARCH`
document_search_wanted(req, tt) ==
    req.include_documents /\ tt # WEB_SEARCH

\* A variant that forgets the include_web flag.
web_search_wanted_whatever_the_flag(req, tt) ==
    tt \in {WEB_SEARCH, HYBRID_SEARCH}

\* `if request.include_web and task_type in [WEB_SEARCH, HYBRID_SEARCH]`
web_search_wanted(req, tt) ==
    req.include_web /\ tt \in {WEB_SEARCH, HYBRID_SEARCH}

\* The entries of response['sources'].
SourceEntry(r) ==
    [type |-> r.source_type, title |-> r.source, source |-> r.source,
     score |-> r.score]

\* A variant whose confidence looks at the first result's score.
NormalResponseByScore(answer, tt, all) ==
    [answer |-> answer,
     task_type |-> tt,
     processing_time |-> "elapsed",
     confidence |-> IF all # <<>> /\ all[1].score > 0 THEN 85 ELSE 0,
     sources |-> [i \in 1..Min(5, Len(all)) |-> SourceEntry(all[i])],
     has_sources |-> Len(all) > 0,
     total_sources |-> Len(all)]

\* A variant that answers a failed LLM call with the handler's mapping.
NormalResponseUnlessLlmFailed(answer, tt, all) ==
    IF answer = LlmErrorText
    THEN [answer |-> "Error processing question",
          task_type |-> "error",
          processing_time |-> "elapsed",
          confidence |-> 0,
          sources |-> <<>>,
          has_sources |-> FALSE,
          total_sources |-> 0]
    ELSE [answer |-> answer,
          task_type |-> tt,
          processing_time |-> "elapsed",
          confidence |-> IF all # <<>> THEN 85 ELSE 0,
          sources |-> [i \in 1..Min(5, Len(all)) |-> SourceEntry(all[i])],
          has_sources |-> Len(all) > 0,
          total_sources |-> Len(all)]

\* The mapping of the normal return.
NormalResponse(answer, tt, all) ==
    [answer |-> answer,
     task_type |-> tt,
     processing_time |-> "elapsed",
     confidence |-> IF all # <<>> THEN 85 ELSE 0,
     sources |-> [i \in 1..Min(5, Len(all)) |-> SourceEntry(all[i])],
     has_sources |-> Len(all) > 0,
     total_sources |-> Len(all)]

\* A variant of the handler's mapping that keeps the confidence of the
\* normal return.
ErrorResponseConfident ==
    [answer |-> "Error processing question",
     task_type |-> "error",
     processing_time |-> "elapsed",
     confidence |-> 85,
     sources |-> <<>>,
     has_sources |-> FALSE,
     total_sources |-> 0]

\* The mapping of the `except Exception` handler.
ErrorResponse ==
    [answer |-> "Error processing question",
     task_type |-> "error",
     processing_time |-> "elapsed",
     confidence |-> 0,
     sources |-> <<>>,
     has_sources |-> FALSE,
     total_sources |-> 0]

\* A variant that puts the new results in front of the list.
extend_in_front(all, more) == more \o all

\* all_results.extend(...)
extend(all, more) == all \o more

\* The questions, keyword arguments and external answers of the model.
Questions ==
    {Question({}), Question({"summarize", "contract"}),
     Question({"current", "market"}), Question({"clause", "agreement"}),
     NotAString}

MaxResultsArgs ==
    {NonInt} \cup {IntArg(n) : n \in {0, 1, 2, DefaultMaxResults, MaxResults}}

Kwargs ==
    [task_type : {None} \cup TaskType,
     max_results : MaxResultsArgs,
     include_web : BOOLEAN,
     include_documents : BOOLEAN,
     extra : BOOLEAN]

Distances == {0, MaxDist}

HitLists ==
    {h \in UNION {[1..n -> [filename : {"lease.txt"}, distance : Distances]]
                     : n \in 0..MaxHits} :
        \A i \in 1..Len(h) - 1 : h[i].distance <= h[i + 1].distance}

LongPage == [i \in 1..MaxContainers |-> i]

\* A long page whose first container is malformed.
GappedPage == [i \in 1..MaxContainers |-> IF i = 1 THEN Malformed ELSE i]

Answers ==
    {NoAnswer, BadStatus, Page(<<>>), Page(<<1>>), Page(<<Malformed, 2>>),
     Page(<<2, 1, 2>>), Page(LongPage), Page(GappedPage)}

AskInit ==
    /\ pc = "idle"
    /\ request = NoRequest
    /\ task_type = None
    /\ all_results = <<>>
    /\ results = <<>>
    /\ web_results = <<>>
    /\ pending = FALSE
    /\ raisedAt = None
    /\ caught = {}
    /\ context = NoContext
    /\ promptSent = None
    /\ response = NoResponse
    /\ sessions = <<>>
    /\ self_session = 0
    /\ calls = 0
    /\ docCalls = 0
    /\ webCalls = 0
    /\ httpCalls = 0
    /\ asked = <<>>
    /\ llmCalls = 0

\* The handler of ask_question: the exception of `stage` becomes the error
\* response.
Handle(stage) ==
    /\ raisedAt' = stage
    /\ response' = ErrorResponse
    /\ pc' = "done"

\* ask_question is called: the request is built and the question classified.
AskStart(question, kw) ==
    /\ pc = "idle"
    /\ calls < MaxCalls
    /\ calls' = calls + 1
    /\ LET req == QueryRequest(question, kw)
           cls == classify(question)
       IN  IF req.raised
           THEN /\ Handle("request")
                /\ UNCHANGED <<request, task_type>>
           ELSE IF cls.raised
           THEN /\ Handle("classify")
                /\ request' = req
                /\ UNCHANGED task_type
           ELSE /\ request' = req
                /\ task_type' = cls.task_type
                /\ pc' = "documents"
                /\ UNCHANGED <<raisedAt, response>>
    /\ UNCHANGED <<all_results, results, web_results, pending, caught, context,
                   promptSent, sessions, self_session, docCalls, webCalls,
                   httpCalls, llmCalls>>
    /\ UNCHANGED <<asked, loadVars, sideVars>>

\* The document search, when it is wanted.
DocumentSearch ==
    /\ pc = "documents"
    /\ pc' = "web"
    /\ IF document_search_wanted(request, task_type)
       THEN \E outcome \in {Raises} \cup {Returns(h) : h \in HitLists} :
               /\ docCalls' = docCalls + 1
               /\ all_results' = extend(all_results,
                      VectorStore_search(outcome, request.max_results))
               /\ caught' =
                      IF VectorStore_search_failed(outcome, request.max_results)
                      THEN caught \cup {"documents"} ELSE caught
       ELSE UNCHANGED <<docCalls, all_results, caught>>
    /\ UNCHANGED <<request, task_type, results, web_results, pending, raisedAt,
                   context, promptSent, response, sessions, self_session, calls,
                   webCalls, httpCalls, llmCalls>>
    /\ UNCHANGED <<asked, loadVars, sideVars>>

\* `async with self.web_search`: __aenter__ creates the session and keeps
\* it in self.session.
aenter(ss) == Append(ss, "open")

\* A variant that closes the session on the normal exit alone.
aexit_unless_raised(ss, cur) ==
    IF cur # 0 /\ ~pending THEN [ss EXCEPT ![cur] = "closed"] ELSE ss

\* __aexit__: `if self.session: await self.session.close()`.
aexit(ss, cur) == IF cur # 0 THEN [ss EXCEPT ![cur] = "closed"] ELSE ss

\* The web search, when it is wanted: the session is opened, search is
\* called (it finds self.session set) and the request to engine A leaves.
WebBegin ==
    /\ pc = "web"
    /\ IF web_search_wanted(request, task_type)
       THEN /\ sessions' = aenter(sessions)
            /\ self_session' = Len(sessions) + 1
            /\ results' = <<>>
            /\ webCalls' = webCalls + 1
            /\ httpCalls' = httpCalls + 1
            /\ asked' = <<[engine |-> "duckduckgo",
                            max_results |-> request.max_results]>>
            /\ pc' = "duckduckgo"
       ELSE /\ pc' = "context"
            /\ UNCHANGED <<sessions, self_session, results, webCalls,
                           httpCalls, asked>>
    /\ UNCHANGED <<request, task_type, all_results, web_results, pending,
                   raisedAt, caught, context, promptSent, response, calls,
                   docCalls, llmCalls>>
    /\ UNCHANGED <<loadVars, sideVars>>

\* Engine A answers.  search catches its exception, compares len(results)
\* with max_results (a TypeError when that is no integer, which leaves the
\* `async with`), and either asks engine B or deduplicates and returns.
WebDuckduckgo ==
    /\ pc = "duckduckgo"
    /\ \E answer \in Answers :
          LET ddg == search_duckduckgo(answer, request.max_results)
          IN  /\ results' = results \o ddg.results
              /\ caught' = IF ddg.raised THEN caught \cup {"duckduckgo"} ELSE caught
              /\ IF ~IsInt(request.max_results)
                 THEN /\ pending' = TRUE
                      /\ pc' = "aexit"
                      /\ UNCHANGED <<httpCalls, asked, web_results>>
                 ELSE IF bing_wanted(results', request.max_results.n)
                 THEN /\ httpCalls' = httpCalls + 1
                      /\ asked' = Append(asked,
                             [engine |-> "bing",
                              max_results |->
                                  IntArg(request.max_results.n - Len(results'))])
                      /\ pc' = "bing"
                      /\ UNCHANGED <<pending, web_results>>
                 ELSE /\ web_results' =
                            unique_results(results', request.max_results.n)
                      /\ pc' = "aexit"
                      /\ UNCHANGED <<pending, httpCalls, asked>>
    /\ UNCHANGED <<request, task_type, all_results, raisedAt, context,
                   promptSent, response, sessions, self_session, calls,
                   docCalls, webCalls, llmCalls>>
    /\ UNCHANGED <<loadVars, sideVars>>

\* Engine B answers; search deduplicates and returns.
WebBing ==
    /\ pc = "bing"
    /\ \E answer \in Answers :
          /\ results' = results \o
                 search_bing(answer, asked[Len(asked)].max_results.n)
          /\ caught' = IF answer.kind = "error" THEN caught \cup {"bing"} ELSE caught
          /\ web_results' = unique_results(results', request.max_results.n)
    /\ pc' = "aexit"
    /\ UNCHANGED <<request, task_type, all_results, pending, raisedAt, context,
                   promptSent, response, sessions, self_session, calls,
                   docCalls, webCalls, httpCalls, llmCalls>>
    /\ UNCHANGED <<asked, loadVars, sideVars>>

\* The `async with` is left: __aexit__ closes the session; an exception on
\* its way out reaches the handler, otherwise the web results are appended.
WebExit ==
    /\ pc = "aexit"
    /\ sessions' = aexit(sessions, self_session)
    /\ IF pending
       THEN /\ Handle("web")
            /\ pending' = FALSE
            /\ UNCHANGED all_results
       ELSE /\ all_results' = extend(all_results, web_results)
            /\ pc' = "context"
            /\ UNCHANGED <<pending, raisedAt, response>>
    /\ UNCHANGED <<request, task_type, results, web_results, caught, context,
                   promptSent, self_session, calls, docCalls, webCalls,
                   httpCalls, llmCalls>>
    /\ UNCHANGED <<asked, loadVars, sideVars>>

\* One part of the context block: "[TYPE] title" and the content.
ContextPart(r) == [label |-> r.source_type, title |-> r.source]

\* A variant that labels every result of the list.
build_context_of_all(all, max_results) ==
    IF all = <<>> THEN NoContext
    ELSE [text |-> "parts",
          parts |-> [i \in 1..Len(all) |-> ContextPart(all[i])]]

\* The context block: all_results[:request.max_results], each labelled, or
\* the fixed text when there is none.
build_context(all, max_results) ==
    LET used == Take(all, max_results)
    IN  IF used = <<>> THEN NoContext
        ELSE [text |-> "parts",
              parts |-> [i \in 1..Len(used) |-> ContextPart(used[i])]]

\* The context is built; the slice raises for a max_results that is no
\* integer.
BuildContext ==
    /\ pc = "context"
    /\ IF ~IsInt(request.max_results)
       THEN /\ Handle("context")
            /\ UNCHANGED context
       ELSE /\ context' = build_context(all_results, request.max_results.n)
            /\ pc' = "llm"
            /\ UNCHANGED <<raisedAt, response>>
    /\ UNCHANGED <<request, task_type, all_results, results, web_results,
                   pending, caught, promptSent, sessions, self_session, calls,
                   docCalls, webCalls, httpCalls, llmCalls>>
    /\ UNCHANGED <<asked, loadVars, sideVars>>

\* The LLM is called and the response is returned.
LlmCall ==
    /\ pc = "llm"
    /\ \E llmFails \in BOOLEAN :
          LET g == generate_response(request, llmFails)
          IN  /\ promptSent' = g.prompt
              /\ caught' = IF llmFails THEN caught \cup {"llm"} ELSE caught
              /\ response' = NormalResponse(g.answer, task_type, all_results)
    /\ llmCalls' = llmCalls + 1
    /\ pc' = "done"
    /\ UNCHANGED <<request, task_type, all_results, results, web_results,
                   pending, raisedAt, context, sessions, self_session, calls,
                   docCalls, webCalls, httpCalls>>
    /\ UNCHANGED <<asked, loadVars, sideVars>>

\* The caller has the response; the provider keeps its session attribute.
AskReturn ==
    /\ pc = "done"
    /\ pc' = "idle"
    /\ request' = NoRequest
    /\ task_type' = None
    /\ all_results' = <<>>
    /\ results' = <<>>
    /\ web_results' = <<>>
    /\ pending' = FALSE
    /\ raisedAt' = None
    /\ caught' = {}
    /\ context' = NoContext
    /\ promptSent' = None
    /\ response' = NoResponse
    /\ docCalls' = 0
    /\ webCalls' = 0
    /\ httpCalls' = 0
    /\ asked' = <<>>
    /\ llmCalls' = 0
    /\ UNCHANGED <<sessions, self_session, calls>>
    /\ UNCHANGED <<loadVars, sideVars>>

AskNext ==
    \/ \E question \in Questions, kw \in Kwargs : AskStart(question, kw)
    \/ DocumentSearch
    \/ WebBegin
    \/ WebDuckduckgo
    \/ WebBing
    \/ WebExit
    \/ BuildContext
    \/ LlmCall
    \/ AskReturn

(***************************************************************************)
(* document_processor.py                                                   *)
(***************************************************************************)
RECURSIVE ChunksFrom(_, _, _, _, _)
\* The loop `for i in range(0, len(words), chunk_size - overlap)`, for a
\* positive step: the window words[i:i + chunk_size] is never empty there.
ChunksFrom(i, n, chunk_size, step, acc) ==
    IF i >= n THEN acc
    ELSE ChunksFrom(i + step, n, chunk_size, step,
                    Append(acc, [start_pos |-> i,
                                 end_pos |-> Min(i + chunk_size, n)]))

RECURSIVE SplitFrom(_, _, _, _)
\* text.split(): the maximal runs of characters that are no white space.
SplitFrom(text, i, word, acc) ==
    IF i > Len(text)
    THEN IF word = <<>> THEN acc ELSE Append(acc, word)
    ELSE IF text[i] = " "
    THEN SplitFrom(text, i + 1, <<>>, IF word = <<>> THEN acc ELSE Append(acc, word))
    ELSE SplitFrom(text, i + 1, Append(word, text[i]), acc)

split(text) == SplitFrom(text, 1, <<>>, <<>>)

\* A variant whose window advances by chunk_size, whatever the overlap.
create_chunks_without_overlap(n, chunk_size, overlap) ==
    IF chunk_size - overlap = 0 THEN [raised |-> TRUE, chunks |-> <<>>]
    ELSE IF chunk_size - overlap < 0 THEN [raised |-> FALSE, chunks |-> <<>>]
    ELSE [raised |-> FALSE,
          chunks |-> ChunksFrom(0, n, chunk_size, chunk_size, <<>>)]

\* create_chunks over a text of n words, chunk_size >= 1.  range() raises
\* a ValueError for the step 0 and is empty for a negative step.
create_chunks(n, chunk_size, overlap) ==
    IF chunk_size - overlap = 0 THEN [raised |-> TRUE, chunks |-> <<>>]
    ELSE IF chunk_size - overlap < 0 THEN [raised |-> FALSE, chunks |-> <<>>]
    ELSE [raised |-> FALSE,
          chunks |-> ChunksFrom(0, n, chunk_size, chunk_size - overlap, <<>>)]

\* The files of the documents directory, and their suffixes.
Suffix(f) ==
    CASE f = "lease.txt" -> ".txt"
      [] f = "notes.md" -> ".md"
      [] f = "deed.pdf" -> ".pdf"
      [] f = "form.docx" -> ".docx"
      [] OTHER -> ".bin"

\* DocumentProcessor.supported_extensions, with both converters installed.
supported_extensions == {".pdf", ".docx", ".pptx", ".xlsx", ".txt", ".md"}

\* DocumentProcessor.supports_file
supports_file(f) == Suffix(f) \in supported_extensions

\* A variant that registers the plain-text reader first.
processors_text_first == <<"text", "markitdown", "docx">>

\* DocumentProcessor.processors, in registration order.
processors == <<"markitdown", "docx", "text">>

\* What one converter does with a file: it raises, or it returns the
\* number of words of the cleaned text (0: nothing but white space).  A
\* file is "text" (readable, `words` words), "blank" or "corrupt", or one
\* that MarkItDown alone cannot handle: it raises on a "legacy" file and
\* gets nothing but white space out of a "sparse" one.  The plain-text
\* reader falls back to latin-1, so it reads any .txt or .md.
Convert(processor, f, file) ==
    CASE processor = "markitdown" ->
            IF file.body \in {"corrupt", "legacy"} THEN Raises
            ELSE Returns(IF file.body \in {"blank", "sparse"} THEN 0
                         ELSE file.words)
      [] processor = "docx" ->
            IF Suffix(f) # ".docx" \/ file.body = "corrupt" THEN Raises
            ELSE Returns(IF file.body = "blank" THEN 0 ELSE file.words)
      [] OTHER ->
            IF Suffix(f) \notin {".txt", ".md"} THEN Raises
            ELSE Returns(IF file.body = "blank" THEN 0 ELSE file.words)

\* A variant that hashes the time of processing with the path: the time
\* moves with every call.
doc_id_of_processing_time(f, file) == <<f, file.mtime + loads>>

\* doc_id = md5(f"{file_path}{st_mtime}"): the path ends in its suffix and
\* the modification time is a number, so the hashed string determines both,
\* and the id is modelled as the pair.
doc_id(f, file) == <<f, file.mtime>>

RECURSIVE TryProcessors(_, _, _)
\* The loop over self.processors of process_document: the first converter
\* that returns text that is not blank builds the Document.  created_at
\* (like processed_at) is the time of the call; the clock of the model is
\* the number of load_documents calls started.
TryProcessors(k, f, file) ==
    IF k > Len(processors) THEN [raised |-> TRUE]
    ELSE LET got == Convert(processors[k], f, file)
         IN  IF got.kind = "value" /\ got.value > 0
             THEN [raised |-> FALSE,
                   id |-> doc_id(f, file),
                   title |-> f,
                   word_count |-> got.value,
                   processor_used |-> processors[k],
                   created_at |-> loads]
             ELSE TryProcessors(k + 1, f, file)

\* DocumentProcessor.process_document
process_document(f, file) ==
    IF ~supports_file(f) \/ ~file.present THEN [raised |-> TRUE]
    ELSE TryProcessors(1, f, file)

(***************************************************************************)
(* vector_store.py: VectorStore.add_document                               *)
(***************************************************************************)
\* The faults of one add_document call: none, or at chunk `at` the
\* existence check (`get`), the encoder or the insert (`add`) raises.  `dup`
\* is what the index does with an insert under an id it holds: it raises,
\* or it ignores the insert.
NoFault == [at |-> 0, what |-> "none", dup |-> "raise"]

Faults(nchunks) ==
    {NoFault} \cup
    [at : 1..nchunks, what : {"get", "encode", "add"}, dup : {"raise", "ignore"}]

\* chunk_id = f"{document.id}_chunk_{i}"
chunk_id(document, i) == <<document.id, i>>

\* The entry collection.add stores for a chunk.
Entry(document, i, chunk) ==
    [id |-> chunk_id(document, i),
     text |-> <<document.id, chunk.start_pos, chunk.end_pos>>,
     doc_id |-> document.id]

\* `existing = self.collection.get(ids=[chunk_id]); if existing['ids']`
existing(idx, id) == \E k \in 1..Len(idx) : idx[k].id = id

RECURSIVE AddChunks(_, _, _, _, _)
\* The loop over enumerate(chunks), from chunk i (counted from 1 here, so
\* its id carries i - 1): the index afterwards, and whether an exception
\* left the loop.
AddChunks(idx, document, chunks, i, fault) ==
    IF i > Len(chunks) THEN [index |-> idx, raised |-> FALSE]
    ELSE LET id == chunk_id(document, i - 1)
             here == fault.at = i
         IN  IF existing(idx, id) /\ ~(here /\ fault.what = "get")
             THEN AddChunks(idx, document, chunks, i + 1, fault)
             ELSE IF here /\ fault.what \in {"encode", "add"}
             THEN [index |-> idx, raised |-> TRUE]
             ELSE IF existing(idx, id)
             THEN IF fault.dup = "raise"
                  THEN [index |-> idx, raised |-> TRUE]
                  ELSE AddChunks(idx, document, chunks, i + 1, fault)
             ELSE AddChunks(Append(idx, Entry(document, i - 1, chunks[i])),
                            document, chunks, i + 1, fault)

RECURSIVE StoreCalls(_, _, _, _, _)
\* The same loop, for the calls it makes: encoder.encode and collection.add
\* of every chunk it does not skip, each with whether the index held the
\* chunk's id at that time and whether the existence check had answered.
StoreCalls(idx, document, chunks, i, fault) ==
    IF i > Len(chunks) THEN {}
    ELSE LET id == chunk_id(document, i - 1)
             here == fault.at = i
             held == \E k \in 1..Len(idx) : idx[k].id = id
             checked == ~(here /\ fault.what = "get")
             call(what) == [id |-> id, call |-> what, held |-> held,
                            checked |-> checked]
         IN  IF existing(idx, id) /\ checked
             THEN StoreCalls(idx, document, chunks, i + 1, fault)
             ELSE IF here /\ fault.what = "encode"
             THEN {call("encode")}
             ELSE IF here /\ fault.what = "add"
             THEN {call("encode"), call("add")}
             ELSE IF existing(idx, id)
             THEN {call("encode"), call("add")} \cup
                  IF fault.dup = "raise" THEN {}
                  ELSE StoreCalls(idx, document, chunks, i + 1, fault)
             ELSE {call("encode"), call("add")} \cup
                  StoreCalls(Append(idx, Entry(document, i - 1, chunks[i])),
                             document, chunks, i + 1, fault)

\* The encoder and insert calls of one add_document call.
add_document_calls(idx, document, config, fault) ==
    LET made == create_chunks(document.word_count, config.chunk_size,
                              config.chunk_overlap)
    IN  IF made.raised THEN {}
        ELSE StoreCalls(idx, document, made.chunks, 1, fault)

\* VectorStore.add_document: it returns None whatever happened; `raised`
\* tells whether its `except Exception` branch ran.
add_document(idx, document, config, fault) ==
    LET made == create_chunks(document.word_count, config.chunk_size,
                              config.chunk_overlap)
    IN  IF made.raised THEN [index |-> idx, raised |-> TRUE]
        ELSE AddChunks(idx, document, made.chunks, 1, fault)

(***************************************************************************)
(* core.py: AgenticAISystem.load_documents                                 *)
(***************************************************************************)

\* The directory holds these files; notes.bin has no supported suffix.
Files == {"lease.txt", "notes.md", "deed.pdf", "notes.bin"}

\* The order in which the directory's files are discovered.  (The code
\* iterates a set of suffixes and globs each; no file matches two of them.)
Listing == <<"deed.pdf", "lease.txt", "notes.md", "notes.bin">>

\* The paths a caller passes: one that does not exist, one that is neither
\* a file nor a directory, the directory, and two of its files.
Paths == {"missing", "socket", "documents", "lease.txt", "notes.bin"}

exists(path, files) ==
    path \in {"socket", "documents"} \/ (path \in Files /\ files[path].present)

is_file(path, files) == path \in Files /\ files[path].present

is_dir(path) == path = "documents"

\* path_obj.glob(f"*{ext}") over the supported suffixes.
glob(files) ==
    SelectSeq(Listing, LAMBDA f : files[f].present /\ supports_file(f))

\* A variant without the check for a directory that holds no supported file.
resolve_any_directory(path, files) ==
    IF ~exists(path, files) THEN [raised |-> TRUE, file_paths |-> <<>>]
    ELSE IF is_file(path, files)
    THEN IF supports_file(path) THEN [raised |-> FALSE, file_paths |-> <<path>>]
         ELSE [raised |-> TRUE, file_paths |-> <<>>]
    ELSE IF is_dir(path)
    THEN [raised |-> FALSE, file_paths |-> glob(files)]
    ELSE [raised |-> TRUE, file_paths |-> <<>>]

\* The first part of load_documents: the ValueError, or the files to process.
resolve(path, files) ==
    IF ~exists(path, files) THEN [raised |-> TRUE, file_paths |-> <<>>]
    ELSE IF is_file(path, files)
    THEN IF supports_file(path) THEN [raised |-> FALSE, file_paths |-> <<path>>]
         ELSE [raised |-> TRUE, file_paths |-> <<>>]
    ELSE IF is_dir(path)
    THEN IF glob(files) = <<>> THEN [raised |-> TRUE, file_paths |-> <<>>]
         ELSE [raised |-> FALSE, file_paths |-> glob(files)]
    ELSE [raised |-> TRUE, file_paths |-> <<>>]

\* A variant that starts the mapping again with every file.
PutAlone(mapping, f, message) == [g \in {f} |-> message]

\* results[str(file_path)] = message
Put(mapping, f, message) ==
    [g \in DOMAIN mapping \cup {f} |-> IF g = f THEN message ELSE mapping[g]]

\* A variant that keeps one Document per file, the latest.
Register_latest_version(docs, document) ==
    {d \in docs : d.title # document.title} \cup {document}

\* self.documents[document.id] = document
Register(docs, document) ==
    {d \in docs : d.id # document.id} \cup {document}

EmptyMapping == [f \in {} |-> "none"]

ChunkSettings ==
    {[chunk_size |-> 2, chunk_overlap |-> 1],
     [chunk_size |-> 3, chunk_overlap |-> 0],
     [chunk_size |-> 2, chunk_overlap |-> 2]}

\* The states of a file at the start: the lease is readable or blank, the
\* notes are readable, the deed is readable or corrupt; each may be absent.
File(present, body, words) ==
    [present |-> present, mtime |-> 1, body |-> body, words |-> words]

Absent == File(FALSE, "blank", 0)

FileSystems ==
    {f \in [Files -> {Absent, File(TRUE, "text", 1), File(TRUE, "text", 3),
                      File(TRUE, "blank", 0), File(TRUE, "corrupt", 1)}] :
        /\ f["lease.txt"] \in {Absent, File(TRUE, "text", 3), File(TRUE, "blank", 0)}
        /\ f["notes.md"] \in {Absent, File(TRUE, "text", 1)}
        /\ f["deed.pdf"] \in {Absent, File(TRUE, "text", 1), File(TRUE, "corrupt", 1)}
        /\ f["notes.bin"] = File(TRUE, "corrupt", 1)}

LoadInit ==
    /\ fs \in FileSystems
    /\ settings \in ChunkSettings
    /\ documents = {}
    /\ index = <<>>
    /\ lpc = "idle"
    /\ lpath = None
    /\ file_paths = <<>>
    /\ found = <<>>
    /\ lresults = EmptyMapping
    /\ lraised = None
    /\ processed = <<>>
    /\ unindexed = {}
    /\ reloaded = {}
    /\ readded = 0
    /\ storeCalls = {}
    /\ loads = 0
    /\ touches = 0
    /\ restarts = 0

\* load_documents is called: the path is resolved.
LoadStart(path) ==
    /\ lpc = "idle"
    /\ loads < MaxLoads
    /\ loads' = loads + 1
    /\ lpath' = path
    /\ LET r == resolve(path, fs)
       IN  IF r.raised
           THEN /\ lraised' = "ValueError"
                /\ lpc' = "done"
                /\ UNCHANGED <<file_paths, found>>
           ELSE /\ file_paths' = r.file_paths
                /\ found' = r.file_paths
                /\ lpc' = "loop"
                /\ UNCHANGED lraised
    /\ UNCHANGED <<fs, settings, documents, index, lresults, processed,
                   unindexed, reloaded, readded, storeCalls, touches, restarts>>
    /\ UNCHANGED <<askVars, sideVars>>

\* One turn of the loop over file_paths.
LoadFile ==
    /\ lpc = "loop"
    /\ file_paths # <<>>
    /\ LET f == Head(file_paths)
           document == process_document(f, fs[f])
       IN  /\ file_paths' = Tail(file_paths)
           /\ processed' = Append(processed, f)
           /\ IF document.raised
              THEN /\ lresults' = Put(lresults, f, "error")
                   /\ storeCalls' = {}
                   /\ UNCHANGED <<documents, index, unindexed, reloaded, readded>>
              ELSE \E fault \in Faults(document.word_count) :
                      LET added == add_document(index, document, settings, fault)
                      IN  /\ documents' = Register(documents, document)
                          /\ index' = added.index
                          /\ storeCalls' =
                                 add_document_calls(index, document, settings, fault)
                          /\ unindexed' = IF added.raised THEN unindexed \cup {f}
                                          ELSE unindexed
                          /\ IF \E d \in documents : d.id = document.id
                             THEN /\ reloaded' = reloaded \cup {f}
                                  /\ readded' = readded + Len(added.index) - Len(index)
                             ELSE UNCHANGED <<reloaded, readded>>
                          /\ lresults' = Put(lresults, f, "success")
    /\ UNCHANGED <<fs, settings, lpc, lpath, found, lraised, loads, touches,
                   restarts>>
    /\ UNCHANGED <<askVars, sideVars>>

\* The loop is over: the mapping is returned.
LoadFinish ==
    /\ lpc = "loop"
    /\ file_paths = <<>>
    /\ lpc' = "done"
    /\ UNCHANGED <<fs, settings, documents, index, lpath, file_paths, found,
                   lresults, lraised, processed, unindexed, reloaded, readded,
                   storeCalls, loads, touches, restarts>>
    /\ UNCHANGED <<askVars, sideVars>>

\* The caller has the mapping or the exception.
LoadReturn ==
    /\ lpc = "done"
    /\ lpc' = "idle"
    /\ lpath' = None
    /\ found' = <<>>
    /\ lresults' = EmptyMapping
    /\ lraised' = None
    /\ processed' = <<>>
    /\ unindexed' = {}
    /\ reloaded' = {}
    /\ readded' = 0
    /\ storeCalls' = {}
    /\ UNCHANGED <<fs, settings, documents, index, file_paths, loads,
                   touches, restarts>>
    /\ UNCHANGED <<askVars, sideVars>>

\* Between two calls a file that was loaded is written again: its
\* modification time moves.
Touch(f) ==
    /\ lpc = "idle"
    /\ fs[f].present
    /\ \E d \in documents : d.id = doc_id(f, fs[f])
    /\ touches < MaxTouches
    /\ touches' = touches + 1
    /\ fs' = [fs EXCEPT ![f].mtime = @ + 1]
    /\ UNCHANGED <<settings, documents, index, lpc, lpath, file_paths, found,
                   lresults, lraised, processed, unindexed, reloaded, readded,
                   storeCalls, loads, restarts>>
    /\ UNCHANGED <<askVars, sideVars>>

\* Between two calls, after documents were loaded, the process is started
\* again with other chunk settings: the registry is in memory and starts
\* empty, the index is on disk and stays.
Restart(s) ==
    /\ lpc = "idle"
    /\ restarts < MaxRestarts
    /\ documents # {}
    /\ s # settings
    /\ restarts' = restarts + 1
    /\ settings' = s
    /\ documents' = {}
    /\ UNCHANGED <<fs, index, lpc, lpath, file_paths, found, lresults, lraised,
                   processed, unindexed, reloaded, readded, storeCalls, loads,
                   touches>>
    /\ UNCHANGED <<askVars, sideVars>>

LoadNext ==
    \/ \E path \in Paths : LoadStart(path)
    \/ LoadFile
    \/ LoadFinish
    \/ LoadReturn
    \/ \E f \in Files : Touch(f)
    \/ \E s \in ChunkSettings : Restart(s)

(***************************************************************************)
(* document_processor.py: create_chunks at work on one text                *)
(***************************************************************************)
\* The texts: every string of up to MaxText characters, each a letter or
\* a blank.
Texts == UNION {[1..n -> {"a", " "}] : n \in 0..MaxText}

ChunkInit ==
    chunker \in [pc : {"call"}, text : Texts, chunk_size : 1..MaxSize,
                 overlap : 0..(MaxSize + 1), raised : {FALSE}, chunks : {<<>>}]

\* create_chunks(text, chunk_size, overlap) runs: the text is split into
\* words and the windows are cut.
ChunkCall ==
    /\ chunker.pc = "call"
    /\ LET made == create_chunks(Len(split(chunker.text)), chunker.chunk_size,
                                 chunker.overlap)
       IN  chunker' = [chunker EXCEPT !.pc = "done", !.raised = made.raised,
                                      !.chunks = made.chunks]
    /\ UNCHANGED <<askVars, loadVars, cli, adders, classifier,
                   processing, provider, inflight>>

(***************************************************************************)
(* llm_provider.py: TaskClassifier.classify at work on one question        *)
(***************************************************************************)
\* The words a question is made of: the cue words, three of them written
\* with capitals as well, and a word that is no cue.
Vocabulary ==
    SummaryCues \cup WebCues \cup DocumentCues
       \cup {"Summarize", "NEWS", "Contract", "lease"}

ClassifyInit ==
    classifier \in [pc : {"call"}, query : {Question(w) : w \in SUBSET Vocabulary},
                    n : {0}, first : {None}, task_type : {None}]

\* classify(query) is called once more on the same classifier.
ClassifyCall ==
    /\ classifier.pc = "call"
    /\ classifier.n < MaxClassify
    /\ LET got == classify(classifier.query)
       IN  classifier' =
              [classifier EXCEPT !.n = @ + 1,
                                 !.task_type = got.task_type,
                                 !.first = IF classifier.n = 0 THEN got.task_type
                                           ELSE @]
    /\ UNCHANGED <<askVars, loadVars, chunker, cli, adders,
                   processing, provider, inflight>>

(***************************************************************************)
(* vector_store.py: two add_document calls on one VectorStore              *)
(***************************************************************************)
\* The two calls; each is suspended between two calls of the store.
Callers == {"first", "second"}

\* A variant of the store that keeps whatever it is given.
collection_add_blindly(idx, entry, dup) ==
    [index |-> Append(idx, entry), raised |-> FALSE]

\* collection.add under the store's rule for an id it holds: the insert
\* raises, or it is ignored.
collection_add(idx, entry, dup) ==
    IF existing(idx, entry.id) THEN [index |-> idx, raised |-> dup = "raise"]
    ELSE [index |-> Append(idx, entry), raised |-> FALSE]

\* Where a call goes after chunk i (counted from 1).
AfterChunk(i, chunks) ==
    IF i < Len(chunks) THEN [pc |-> "get", i |-> i + 1] ELSE [pc |-> "done", i |-> i]

\* The index is empty and the chunk settings are those of LoadIdle.
AddInit ==
    adders \in
       {[pc |-> "run",
         document |-> process_document("lease.txt", File(TRUE, "text", n)),
         dup |-> d,
         raced |-> FALSE,
         calls |-> [c \in Callers |-> [pc |-> "chunks", i |-> 0]]] :
           n \in 1..MaxWords, d \in {"raise", "ignore"}}

\* A call starts: create_chunks; its ValueError ends the call in the
\* `except Exception` branch.
AddChunk(c) ==
    /\ adders.pc = "run"
    /\ adders.calls[c].pc = "chunks"
    /\ LET made == create_chunks(adders.document.word_count, settings.chunk_size,
                                 settings.chunk_overlap)
       IN  adders' = [adders EXCEPT !.calls[c] =
                         IF made.raised THEN [pc |-> "failed", i |-> 0]
                         ELSE IF made.chunks = <<>> THEN [pc |-> "done", i |-> 0]
                         ELSE [pc |-> "get", i |-> 1]]
    /\ UNCHANGED <<askVars, chunker, cli, classifier,
                   processing, provider, inflight>>
    /\ UNCHANGED <<fs, settings, documents, index, lpc, lpath, file_paths, found,
                   lresults, lraised, processed, unindexed, reloaded, readded,
                   storeCalls, loads, touches, restarts>>

\* `existing = self.collection.get(ids=[chunk_id])`: a chunk the index
\* holds is skipped.
AddGet(c) ==
    /\ adders.pc = "run"
    /\ adders.calls[c].pc = "get"
    /\ LET i == adders.calls[c].i
           chunks == create_chunks(adders.document.word_count,
                                   settings.chunk_size,
                                   settings.chunk_overlap).chunks
       IN  adders' = [adders EXCEPT !.calls[c] =
                         IF existing(index, chunk_id(adders.document, i - 1))
                         THEN AfterChunk(i, chunks)
                         ELSE [pc |-> "add", i |-> i]]
    /\ UNCHANGED <<askVars, chunker, cli, classifier,
                   processing, provider, inflight>>
    /\ UNCHANGED <<fs, settings, documents, index, lpc, lpath, file_paths, found,
                   lresults, lraised, processed, unindexed, reloaded, readded,
                   storeCalls, loads, touches, restarts>>

\* The chunk is embedded and `self.collection.add(...)` is called; its
\* exception ends the call in the `except Exception` branch.
AddInsert(c) ==
    /\ adders.pc = "run"
    /\ adders.calls[c].pc = "add"
    /\ LET i == adders.calls[c].i
           chunks == create_chunks(adders.document.word_count,
                                   settings.chunk_size,
                                   settings.chunk_overlap).chunks
           entry == Entry(adders.document, i - 1, chunks[i])
           added == collection_add(index, entry, adders.dup)
       IN  /\ index' = added.index
           /\ adders' = [adders EXCEPT
                            !.raced = @ \/ existing(index, entry.id),
                            !.calls[c] = IF added.raised
                                         THEN [pc |-> "failed", i |-> i]
                                         ELSE AfterChunk(i, chunks)]
    /\ UNCHANGED <<askVars, chunker, cli, classifier,
                   processing, provider, inflight>>
    /\ UNCHANGED <<fs, settings, documents, lpc, lpath, file_paths, found,
                   lresults, lraised, processed, unindexed, reloaded, readded,
                   storeCalls, loads, touches, restarts>>

(***************************************************************************)
(* cli.py: main                                                            *)
(***************************************************************************)
\* ask_question(question): the call of the question loop passes no keyword.
CliKwargs ==
    [task_type |-> None, max_results |-> IntArg(DefaultMaxResults),
     include_web |-> TRUE, include_documents |-> TRUE, extra |-> FALSE]

\* What the user types at the question prompt, stripped: a word that
\* leaves the loop, in any case of letters, nothing, or a question.
QuitWords == {"quit", "exit", "q", "Quit"}

\* The directories main is started in.
CliFileSystems ==
    {f \in FileSystems :
        /\ f["notes.md"] = Absent
        /\ f["lease.txt"] \in {Absent, File(TRUE, "text", 3)}
        /\ f["deed.pdf"] \in {Absent, File(TRUE, "corrupt", 1)}}

CliInit == cli = [pc |-> "start", exit |-> None]

\* The start of main: without an API key it returns; a failure of
\* AgenticAISystem(settings) is an exception, which ends it too.
CliStart(outcome) ==
    /\ cli.pc = "start"
    /\ cli' = IF outcome = "ok" THEN [pc |-> "docs", exit |-> None]
              ELSE [pc |-> "ended", exit |-> outcome]
    /\ UNCHANGED <<askVars, loadVars, chunker, adders, classifier,
                   processing, provider, inflight>>

\* The documents path is read and load_documents is called with it.
CliLoad(path) ==
    /\ cli.pc = "docs"
    /\ loads = 0
    /\ LoadStart(path)

\* load_documents is over.  Its exception reaches `except Exception` at
\* the end of main, which prints it and returns; its mapping is printed
\* and the question loop starts.
CliLoaded ==
    /\ cli.pc = "docs"
    /\ lpc = "done"
    /\ cli' = IF lraised # None THEN [pc |-> "ended", exit |-> "error"]
              ELSE [pc |-> "prompt", exit |-> None]
    /\ UNCHANGED <<askVars, loadVars, chunker, adders, classifier,
                   processing, provider, inflight>>

\* A line at the question prompt that is no question: a quit word leaves
\* the loop, an empty line asks again; KeyboardInterrupt ends main.
CliInput(line) ==
    /\ cli.pc = "prompt"
    /\ pc = "idle"
    /\ cli' = IF line \in QuitWords THEN [pc |-> "ended", exit |-> "quit"]
              ELSE IF line = "^C" THEN [pc |-> "ended", exit |-> "interrupt"]
              ELSE cli
    /\ UNCHANGED <<askVars, loadVars, chunker, adders, classifier,
                   processing, provider, inflight>>

\* A question at the prompt: ask_question is called; when it has returned
\* (AskReturn) the response is printed and the prompt comes again.
CliAsk(question) ==
    /\ cli.pc = "prompt"
    /\ AskStart(question, CliKwargs)

(***************************************************************************)
(* document_processor.py: process_document at work on one file             *)
(***************************************************************************)
\* The files handed to process_document and the states they are in.
ProcessFiles == {"lease.txt", "notes.md", "deed.pdf", "form.docx", "notes.bin"}

ProcessFileStates ==
    {Absent} \cup
    {File(TRUE, body, words) :
        body \in {"text", "blank", "corrupt", "legacy", "sparse"},
        words \in 1..MaxFileWords}

NoDocument == [raised |-> TRUE]

ProcessInit ==
    processing \in [pc : {"call"}, f : ProcessFiles, file : ProcessFileStates,
                    k : {1}, tried : {<<>>}, last_error : {None},
                    raised : {None}, document : {NoDocument}]

\* The checks before the loop: the suffix, then the existence of the file.
ProcessBegin ==
    /\ processing.pc = "call"
    /\ processing' =
          IF ~supports_file(processing.f)
          THEN [processing EXCEPT !.pc = "done", !.raised = "Unsupported file type"]
          ELSE IF ~processing.file.present
          THEN [processing EXCEPT !.pc = "done", !.raised = "File not found"]
          ELSE [processing EXCEPT !.pc = "loop"]
    /\ UNCHANGED <<askVars, loadVars, chunker, cli, adders, classifier,
                   provider, inflight>>

\* One turn of the loop over self.processors: the strategy is run inside
\* the try; text that is not blank builds the Document and returns it, an
\* exception is kept as last_error, and blank text just ends the turn.
ProcessTry ==
    /\ processing.pc = "loop"
    /\ processing.k <= Len(processors)
    /\ LET processor_name == processors[processing.k]
           got == Convert(processor_name, processing.f, processing.file)
       IN  processing' =
             IF got.kind = "value" /\ got.value > 0
             THEN [processing EXCEPT
                     !.pc = "done",
                     !.tried = Append(@, processor_name),
                     !.document =
                         [raised |-> FALSE,
                          id |-> doc_id(processing.f, processing.file),
                          title |-> processing.f,
                          word_count |-> got.value,
                          processor_used |-> processor_name,
                          created_at |-> loads]]
             ELSE [processing EXCEPT
                     !.k = @ + 1,
                     !.tried = Append(@, processor_name),
                     !.last_error = IF got.kind = "value" THEN @
                                    ELSE processor_name]
    /\ UNCHANGED <<askVars, loadVars, chunker, cli, adders, classifier,
                   provider, inflight>>

\* The loop ran out of strategies: the one exception after it.
ProcessExhausted ==
    /\ processing.pc = "loop"
    /\ processing.k > Len(processors)
    /\ processing' = [processing EXCEPT !.pc = "done",
                                         !.raised = "All processors failed"]
    /\ UNCHANGED <<askVars, loadVars, chunker, cli, adders, classifier,
                   provider, inflight>>

(***************************************************************************)
(* llm_provider.py: LLMProvider.__init__                                   *)
(***************************************************************************)
\* settings.openai_model: the default, one of the fallbacks, another name.
PreferredModels == {"gpt-4.1-mini-2025-04-14", "gpt-4o", "o-custom"}

\* A variant that probes the fallbacks before the preferred model.
model_options_fallbacks_first(preferred_model) ==
    <<"gpt-4o-mini", "gpt-4o", "gpt-4", "gpt-4.1-mini-2025-04-14",
      preferred_model>>

\* The list model_options of _get_available_model.
model_options(preferred_model) ==
    <<preferred_model, "gpt-4o-mini", "gpt-4o", "gpt-4",
      "gpt-4.1-mini-2025-04-14">>

\* What a probe (a one-token chat completion) ends in: a response, an
\* exception whose text says the model does not exist, another exception.
ProbeOutcomes == {"ok", "model_not_found", "error"}

ProviderInit ==
    provider \in [pc : {"probing"}, preferred : PreferredModels, k : {1},
                  probes : {<<>>}, model : {None}, raised : {None}]

\* One turn of the loop over model_options: the probe of candidate k.  A
\* response returns the model; both branches of the handler `continue`.
ProviderProbe(outcome) ==
    /\ provider.pc = "probing"
    /\ provider.k <= Len(model_options(provider.preferred))
    /\ LET model == model_options(provider.preferred)[provider.k]
           made == Append(provider.probes, [model |-> model, outcome |-> outcome])
       IN  provider' =
             IF outcome = "ok"
             THEN [provider EXCEPT !.pc = "ready", !.probes = made,
                                   !.model = model]
             ELSE [provider EXCEPT !.k = @ + 1, !.probes = made]
    /\ UNCHANGED <<askVars, loadVars, chunker, cli, adders, classifier,
                   processing, inflight>>

\* The loop ran out of candidates: the exception leaves __init__.
ProviderExhausted ==
    /\ provider.pc = "probing"
    /\ provider.k > Len(model_options(provider.preferred))
    /\ provider' = [provider EXCEPT !.pc = "failed",
                                     !.raised = "No OpenAI models are available"]
    /\ UNCHANGED <<askVars, loadVars, chunker, cli, adders, classifier,
                   processing, inflight>>

(***************************************************************************)
(* core.py / web_search.py: two ask_question calls on one system           *)
(***************************************************************************)
\* Two ask_question calls that both search the web run on one event loop
\* and share the system's WebSearchProvider, hence its attribute session.
\* A call gives way to the other only where it awaits an engine's answer:
\* __aenter__ and the start of search run without a pause up to the
\* request to engine A; the handling of an answer runs up to the next
\* request, or through the return of search and __aexit__.
OverlapAnswers == {NoAnswer, Page(<<1>>), Page(<<2, 1, 2>>)}

OverlapInit ==
    inflight \in
        [pc : {"run"},
         max_results : {IntArg(1), IntArg(2)},
         calls : [Callers -> [pc : {"start"}, on : {0}, results : {<<>>},
                              onClosed : {FALSE}]]]

\* A request leaves on self.session, as the attribute stands now.
Request(call, stage, rs, ss, cur) ==
    [call EXCEPT !.pc = stage, !.on = cur, !.results = rs,
                 !.onClosed = @ \/ ss[cur] = "closed"]

\* `async with self.web_search`: the session is created and kept in the
\* attribute; search finds it set and sends the request to engine A.
OverlapEnter(c) ==
    /\ inflight.pc = "run"
    /\ inflight.calls[c].pc = "start"
    /\ sessions' = aenter(sessions)
    /\ self_session' = Len(sessions) + 1
    /\ inflight' = [inflight EXCEPT !.calls[c] =
                        Request(@, "duckduckgo", <<>>, sessions', self_session')]
    /\ UNCHANGED <<pc, request, task_type, all_results, results, web_results,
                   pending, raisedAt, caught, context, promptSent, response,
                   calls, docCalls, webCalls, httpCalls, asked, llmCalls>>
    /\ UNCHANGED <<loadVars, chunker, cli, adders, classifier, processing,
                   provider>>

\* Engine A's answer reaches call c: engine B is asked on self.session, or
\* search returns and __aexit__ closes self.session.
OverlapDuckduckgo(c) ==
    /\ inflight.pc = "run"
    /\ inflight.calls[c].pc = "duckduckgo"
    /\ \E answer \in OverlapAnswers :
          LET rs == search_duckduckgo(answer, inflight.max_results).results
          IN  IF bing_wanted(rs, inflight.max_results.n)
              THEN /\ inflight' = [inflight EXCEPT !.calls[c] =
                          Request(@, "bing", rs, sessions, self_session)]
                   /\ UNCHANGED sessions
              ELSE /\ inflight' = [inflight EXCEPT !.calls[c].pc = "returned",
                                                   !.calls[c].results = rs]
                   /\ sessions' = aexit(sessions, self_session)
    /\ UNCHANGED <<pc, request, task_type, all_results, results, web_results,
                   pending, raisedAt, caught, context, promptSent, response,
                   self_session, calls, docCalls, webCalls, httpCalls, asked,
                   llmCalls>>
    /\ UNCHANGED <<loadVars, chunker, cli, adders, classifier, processing,
                   provider>>

\* Engine B's answer reaches call c: search returns and __aexit__ closes
\* self.session.
OverlapBing(c) ==
    /\ inflight.pc = "run"
    /\ inflight.calls[c].pc = "bing"
    /\ \E answer \in OverlapAnswers :
          inflight' = [inflight EXCEPT
              !.calls[c].pc = "returned",
              !.calls[c].results =
                  unique_results(
                      @ \o search_bing(answer, inflight.max_results.n - Len(@)),
                      inflight.max_results.n)]
    /\ sessions' = aexit(sessions, self_session)
    /\ UNCHANGED <<pc, request, task_type, all_results, results, web_results,
                   pending, raisedAt, caught, context, promptSent, response,
                   self_session, calls, docCalls, webCalls, httpCalls, asked,
                   llmCalls>>
    /\ UNCHANGED <<loadVars, chunker, cli, adders, classifier, processing,
                   provider>>

(***************************************************************************)
(* The specifications.                                                     *)
(***************************************************************************)
vars == <<askVars, loadVars, sideVars>>

\* The chunker, the interactive program and the concurrent callers at rest.
SideIdle ==
    /\ chunker = [pc |-> "off"]
    /\ cli = [pc |-> "off"]
    /\ adders = [pc |-> "off"]
    /\ classifier = [pc |-> "off"]
    /\ processing = [pc |-> "off"]
    /\ provider = [pc |-> "off"]
    /\ inflight = [pc |-> "off"]

\* The load side at rest, for the behaviours of ask_question.
LoadIdle ==
    /\ fs = [f \in Files |-> Absent]
    /\ settings = [chunk_size |-> 2, chunk_overlap |-> 1]
    /\ documents = {}
    /\ index = <<>>
    /\ lpc = "idle"
    /\ lpath = None
    /\ file_paths = <<>>
    /\ found = <<>>
    /\ lresults = EmptyMapping
    /\ lraised = None
    /\ processed = <<>>
    /\ unindexed = {}
    /\ reloaded = {}
    /\ readded = 0
    /\ storeCalls = {}
    /\ loads = 0
    /\ touches = 0
    /\ restarts = 0

Init == AskInit /\ LoadIdle /\ SideIdle

Next == AskNext

\* Sequences of ask_question calls.
Spec == Init /\ [][Next]_vars

InitLoad == AskInit /\ LoadInit /\ SideIdle

NextLoad == LoadNext

\* Sequences of load_documents calls, with the files and the settings
\* changing in between.
SpecLoad == InitLoad /\ [][NextLoad]_vars

InitChunk ==
    /\ AskInit
    /\ LoadIdle
    /\ ChunkInit
    /\ cli = [pc |-> "off"]
    /\ adders = [pc |-> "off"]
    /\ classifier = [pc |-> "off"]
    /\ processing = [pc |-> "off"]
    /\ provider = [pc |-> "off"]
    /\ inflight = [pc |-> "off"]

NextChunk == ChunkCall

\* create_chunks applied to every text, chunk_size and overlap of the bounds.
SpecChunk == InitChunk /\ [][NextChunk]_vars

InitClassify ==
    /\ AskInit
    /\ LoadIdle
    /\ ClassifyInit
    /\ chunker = [pc |-> "off"]
    /\ cli = [pc |-> "off"]
    /\ adders = [pc |-> "off"]
    /\ processing = [pc |-> "off"]
    /\ provider = [pc |-> "off"]
    /\ inflight = [pc |-> "off"]

NextClassify == ClassifyCall

\* classify applied, more than once, to every question of the vocabulary.
SpecClassify == InitClassify /\ [][NextClassify]_vars

InitCli ==
    /\ AskInit
    /\ LoadInit
    /\ fs \in CliFileSystems
    /\ settings = [chunk_size |-> 2, chunk_overlap |-> 1]
    /\ CliInit
    /\ chunker = [pc |-> "off"]
    /\ adders = [pc |-> "off"]
    /\ classifier = [pc |-> "off"]
    /\ processing = [pc |-> "off"]
    /\ provider = [pc |-> "off"]
    /\ inflight = [pc |-> "off"]

NextCli ==
    \/ \E outcome \in {"no_api_key", "init_error", "ok"} : CliStart(outcome)
    \/ \E path \in Paths : CliLoad(path)
    \/ LoadFile
    \/ LoadFinish
    \/ CliLoaded
    \/ \E line \in QuitWords \cup {"", "^C"} : CliInput(line)
    \/ \E question \in Questions \ {NotAString} : CliAsk(question)
    \/ DocumentSearch
    \/ WebBegin
    \/ WebDuckduckgo
    \/ WebBing
    \/ WebExit
    \/ BuildContext
    \/ LlmCall
    \/ AskReturn

\* One run of the interactive program.
SpecCli == InitCli /\ [][NextCli]_vars

InitProcess ==
    /\ AskInit
    /\ LoadIdle
    /\ ProcessInit
    /\ chunker = [pc |-> "off"]
    /\ cli = [pc |-> "off"]
    /\ adders = [pc |-> "off"]
    /\ classifier = [pc |-> "off"]
    /\ provider = [pc |-> "off"]
    /\ inflight = [pc |-> "off"]

NextProcess ==
    \/ ProcessBegin
    \/ ProcessTry
    \/ ProcessExhausted

\* process_document on every file of ProcessFiles in every state.
SpecProcess == InitProcess /\ [][NextProcess]_vars

InitProvider ==
    /\ AskInit
    /\ LoadIdle
    /\ ProviderInit
    /\ chunker = [pc |-> "off"]
    /\ cli = [pc |-> "off"]
    /\ adders = [pc |-> "off"]
    /\ classifier = [pc |-> "off"]
    /\ processing = [pc |-> "off"]
    /\ inflight = [pc |-> "off"]

NextProvider ==
    \/ \E outcome \in ProbeOutcomes : ProviderProbe(outcome)
    \/ ProviderExhausted

\* The construction of an LLMProvider under every sequence of probe outcomes.
SpecProvider == InitProvider /\ [][NextProvider]_vars

InitOverlap ==
    /\ AskInit
    /\ LoadIdle
    /\ OverlapInit
    /\ chunker = [pc |-> "off"]
    /\ cli = [pc |-> "off"]
    /\ adders = [pc |-> "off"]
    /\ classifier = [pc |-> "off"]
    /\ processing = [pc |-> "off"]
    /\ provider = [pc |-> "off"]

NextOverlap ==
    \/ \E c \in Callers : OverlapEnter(c)
    \/ \E c \in Callers : OverlapDuckduckgo(c)
    \/ \E c \in Callers : OverlapBing(c)

\* Two web-searching ask_question calls under every interleaving at their
\* awaits.
SpecOverlap == InitOverlap /\ [][NextOverlap]_vars

InitAdd ==
    /\ AskInit
    /\ LoadIdle
    /\ AddInit
    /\ chunker = [pc |-> "off"]
    /\ cli = [pc |-> "off"]
    /\ classifier = [pc |-> "off"]
    /\ processing = [pc |-> "off"]
    /\ provider = [pc |-> "off"]
    /\ inflight = [pc |-> "off"]

NextAdd ==
    \/ \E c \in Callers : AddChunk(c)
    \/ \E c \in Callers : AddGet(c)
    \/ \E c \in Callers : AddInsert(c)

\* Two add_document calls for one document, interleaved at the calls of
\* the store.
SpecAdd == InitAdd /\ [][NextAdd]_vars

(***************************************************************************)
(* Properties of ask_question (checked under Spec).                        *)
(***************************************************************************)
ResponseKeys ==
    {"answer", "task_type", "processing_time", "confidence", "sources",
     "has_sources", "total_sources"}

Classified == task_type # None

\* C1: in ask_question the vector-store search is invoked iff
\* include_documents is true and the classified task type is not
\* WEB_SEARCH, and the web search provider is invoked iff include_web is
\* true and the task type is WEB_SEARCH or HYBRID_SEARCH; no engine request
\* leaves without a provider call, so with include_web false there is none.
C1_SourcesFollowFlagsAndTaskType ==
    Classified =>
       /\ docCalls > 0 => request.include_documents /\ task_type # WEB_SEARCH
       /\ webCalls > 0 =>
             request.include_web /\ task_type \in {WEB_SEARCH, HYBRID_SEARCH}
       /\ httpCalls > 0 => webCalls > 0
       /\ pc = "done" =>
             /\ docCalls = IF request.include_documents /\ task_type # WEB_SEARCH
                           THEN 1 ELSE 0
             /\ webCalls = IF /\ request.include_web
                              /\ task_type \in {WEB_SEARCH, HYBRID_SEARCH}
                           THEN 1 ELSE 0

\* A hybrid question answered from the documents alone: no web request.
C1_Witness ==
    /\ pc = "done"
    /\ task_type = HYBRID_SEARCH
    /\ ~request.include_web
    /\ request.include_documents
    /\ docCalls = 1
    /\ webCalls = 0
    /\ httpCalls = 0
    /\ response.total_sources > 0

\* C2 (as amended): ask_question always returns a mapping with the seven
\* keys; an exception that reaches its handler (from building the request,
\* classifying, the web search or building the context) gives the error
\* response with confidence 0 and no sources; a failure that VectorStore.search,
\* an engine call or generate_response catches itself gives the normal
\* response, built from the results that were retrieved.
C2_AlwaysAResponse ==
    pc = "done" =>
       /\ DOMAIN response = ResponseKeys
       /\ raisedAt # None =>
             /\ response.task_type = "error"
             /\ response.confidence = 0
             /\ response.sources = <<>>
             /\ response.has_sources = FALSE
             /\ response.total_sources = 0
       /\ raisedAt = None =>
             /\ response.task_type = task_type
             /\ response.confidence = (IF Len(all_results) > 0 THEN 85 ELSE 0)
             /\ response.has_sources = (Len(all_results) > 0)
             /\ response.total_sources = Len(all_results)
             /\ Len(response.sources) = Min(5, Len(all_results))

\* The search left the `async with` by an exception, after engine A failed.
C2_Witness ==
    /\ pc = "done"
    /\ raisedAt = "web"
    /\ "duckduckgo" \in caught
    /\ response.confidence = 0

\* C2 as stated: whatever fails while the question is answered, the response
\* has confidence 0, no sources, has_sources False and total_sources 0.
C2_AnyFailureGivesErrorResponse ==
    pc = "done" /\ (raisedAt # None \/ caught # {}) =>
       /\ response.confidence = 0
       /\ response.sources = <<>>
       /\ response.has_sources = FALSE
       /\ response.total_sources = 0

\* C3: the system prompt sent to the LLM is the one of the task type that
\* selected the retrieval sources and that the response reports.
C3_PromptFollowsTaskType ==
    pc = "done" /\ raisedAt = None =>
       /\ response.task_type = task_type
       /\ promptSent = get_system_prompt(task_type)

\* C4: a task type passed by the caller decides the retrieval sources and
\* is the task type the response reports.
C4_OverrideDecides ==
    pc = "done" /\ raisedAt = None /\ request.task_type # None =>
       /\ response.task_type = request.task_type
       /\ docCalls > 0 <=>
             request.include_documents /\ request.task_type # WEB_SEARCH
       /\ webCalls > 0 <=>
             /\ request.include_web
             /\ request.task_type \in {WEB_SEARCH, HYBRID_SEARCH}

NonNegative(rs) == \A i \in 1..Len(rs) : rs[i].score >= 0

\* C6: every SearchResult of the vector store and of the web search has a
\* score >= 0.
C6_ScoresNonNegative ==
    /\ NonNegative(all_results)
    /\ NonNegative(results)
    /\ NonNegative(web_results)

AllClosed == \A i \in 1..Len(sessions) : sessions[i] = "closed"

\* C10: when ask_question has returned, the session opened for its web
\* search is closed, whether the search returned or raised; between calls
\* no session is open.
C10_SessionReleased ==
    pc \in {"idle", "done"} =>
       /\ AllClosed
       /\ webCalls > 0 => self_session = Len(sessions) /\ self_session > 0

\* The second call's search raised; both sessions are closed.
C10_Witness ==
    /\ pc = "done"
    /\ raisedAt = "web"
    /\ Len(sessions) = 2
    /\ AllClosed

\* WebSearchProvider.search has returned its list to ask_question.
SearchReturned ==
    /\ webCalls > 0
    /\ pc \in {"aexit", "context", "llm", "done"}
    /\ ~pending
    /\ raisedAt # "web"

\* The places of `rs` that hold a source for the first time.
FirstSeen(rs) ==
    {i \in 1..Len(rs) : \A j \in 1..(i - 1) : rs[j].source # rs[i].source}

\* The k-th of them.
KthFirstSeen(rs, k) ==
    CHOOSE i \in FirstSeen(rs) : Cardinality({j \in FirstSeen(rs) : j <= i}) = k

\* C11: the list WebSearchProvider.search returns holds no source twice,
\* has at most max_results entries, and keeps the results in first-seen
\* order, engine A's before engine B's; a source both engines returned has
\* exactly one entry, the one seen first (engine A's).
C11_DedupBySource ==
    SearchReturned =>
       /\ \A i, j \in 1..Len(web_results) :
             web_results[i].source = web_results[j].source => i = j
       /\ Len(web_results) <= request.max_results.n
       /\ Len(web_results) <= Cardinality(FirstSeen(results))
       /\ \A k \in 1..Len(web_results) :
             web_results[k] = results[KthFirstSeen(results, k)]
       /\ \A i, j \in 1..Len(web_results) :
             i < j => ~(/\ web_results[i].metadata = "bing"
                        /\ web_results[j].metadata = "duckduckgo")
       /\ \A a, b \in 1..Len(results) :
             /\ results[a].metadata = "duckduckgo"
             /\ results[b].metadata = "bing"
             /\ results[a].source = results[b].source
             => /\ Cardinality({k \in 1..Len(web_results) :
                      web_results[k].source = results[a].source}) = 1
                /\ \A k \in 1..Len(web_results) :
                      web_results[k].source = results[a].source
                      => web_results[k].metadata = "duckduckgo"

\* Both engines returned URL 1 and URL 2, engine A one of them twice: the
\* list has one entry for each.
C11_Witness ==
    /\ pc = "done"
    /\ SearchReturned
    /\ Len(results) = 5
    /\ \E a, b \in 1..Len(results) :
          /\ results[a].metadata = "duckduckgo"
          /\ results[b].metadata = "bing"
          /\ results[a].source = results[b].source
    /\ Len(web_results) = 2

Sources(rs) == {rs[i].source : i \in 1..Len(rs)}

Producers(rs) == {rs[i].metadata : i \in 1..Len(rs)}

\* C12: no failure of an engine makes WebSearchProvider.search raise (it
\* raises only for a max_results that is no integer).  For a request of at
\* least one result: after engine A failed engine B is queried and the
\* list returned is made of B's results; after B failed it is made of A's;
\* after both failed it is empty.
C12_EnginesFailApart ==
    /\ pending \/ raisedAt = "web" => ~IsInt(request.max_results)
    /\ pc \in {"duckduckgo", "bing"} /\ IsInt(request.max_results) => ~pending
    /\ SearchReturned /\ request.max_results.n >= 1 =>
          /\ "duckduckgo" \in caught =>
                /\ httpCalls = 2
                /\ Producers(results) \subseteq {"bing"}
          /\ "bing" \in caught => Producers(results) \subseteq {"duckduckgo"}
          /\ {"duckduckgo", "bing"} \subseteq caught => web_results = <<>>
          /\ Sources(web_results) = Sources(results)
          /\ Producers(web_results) \subseteq Producers(results)

\* Engine A failed; engine B's results came back and are the sources of
\* the response.
C12_Witness ==
    /\ pc = "done"
    /\ SearchReturned
    /\ "duckduckgo" \in caught
    /\ httpCalls = 2
    /\ Len(web_results) = 2
    /\ Producers(web_results) = {"bing"}
    /\ response.total_sources >= 2

\* C13: a failure of the query embedding or of the index query never
\* leaves VectorStore.search: the search returns the empty list, and
\* ask_question goes on as with no document context, to the web search
\* when the flags and the task type ask for it and to the LLM call.  (With
\* a max_results that is no integer the later stages raise on their own.)
C13_DocumentSearchDegrades ==
    "documents" \in caught =>
       /\ docCalls = 1
       /\ \A i \in 1..Len(all_results) : all_results[i].source_type # "document"
       /\ raisedAt \in {None, "web", "context"}
       /\ raisedAt # None => ~IsInt(request.max_results)
       /\ pc = "done" /\ IsInt(request.max_results) =>
             /\ llmCalls = 1
             /\ webCalls = IF /\ request.include_web
                              /\ task_type \in {WEB_SEARCH, HYBRID_SEARCH}
                           THEN 1 ELSE 0
             /\ all_results = web_results
             /\ context.parts =
                   [i \in 1..Min(Len(web_results), request.max_results.n) |->
                       [label |-> "web", title |-> web_results[i].source]]
             /\ web_results = <<>> => context = NoContext
             /\ response.answer \in {AnswerText, LlmErrorText}
             /\ response.task_type = task_type
             /\ response.total_sources = Len(web_results)

\* The index query raised for a hybrid question; the web search and the
\* LLM call followed, and the answer rests on the web results alone.
C13_Witness ==
    /\ pc = "done"
    /\ "documents" \in caught
    /\ IsInt(request.max_results)
    /\ request.max_results.n >= 1
    /\ task_type = HYBRID_SEARCH
    /\ webCalls = 1
    /\ llmCalls = 1
    /\ response.answer = AnswerText
    /\ response.total_sources = 2
    /\ response.sources[1].type = "web"

\* C16: a failure of the chat-completion call never leaves
\* generate_response: the call returns the error text, and ask_question,
\* which gets an answer string from every call, returns its normal response
\* with that text as the answer.
C16_LlmNeverRaises ==
    pc = "done" /\ llmCalls > 0 =>
       /\ raisedAt = None
       /\ response.answer \in {AnswerText, LlmErrorText}
       /\ response.answer = LlmErrorText <=> "llm" \in caught
       /\ response.task_type = task_type

\* The chat-completion call failed after a document was found: the answer
\* is the error text, in a normal response.
C16_Witness ==
    /\ pc = "done"
    /\ "llm" \in caught
    /\ llmCalls = 1
    /\ response.answer = LlmErrorText
    /\ response.task_type = DOCUMENT_QUERY
    /\ response.total_sources = 1

\* C17: the confidence is 85 when the combined result list (document
\* results, then web results) is not empty and 0 when it is, in the error
\* response too, and has_sources is true exactly when the confidence is
\* not 0.
C17_ConfidenceIffResults ==
    pc = "done" =>
       /\ response.confidence = IF Len(all_results) > 0 THEN 85 ELSE 0
       /\ response.confidence \in {0, 85}
       /\ response.has_sources <=> response.confidence # 0
       /\ response.has_sources <=> Len(all_results) > 0
       /\ raisedAt # None => response.confidence = 0

\* The only result is a document hit of similarity 0: confidence 85.
C17_Witness ==
    /\ pc = "done"
    /\ raisedAt = None
    /\ Len(all_results) = 1
    /\ all_results[1].score = 0
    /\ response.confidence = 85
    /\ response.has_sources

\* C21: in the list search returns, every result of engine A (DuckDuckGo)
\* has a rank strictly smaller than every result of engine B (Bing),
\* whatever max_results and the number of containers on the pages.
C21_FirstEngineRanksAhead ==
    SearchReturned =>
        \A i, j \in 1..Len(web_results) :
            (web_results[i].metadata = "duckduckgo"
                /\ web_results[j].metadata = "bing")
                => web_results[i].rank < web_results[j].rank

\* The results of engine A among `rs`.
FromDuckduckgo(rs) == {i \in 1..Len(rs) : rs[i].metadata = "duckduckgo"}

\* C22: search asks engine A first, with max_results; the request to
\* engine B leaves only in the step that handles A's answer, and asks for
\* max_results minus the number of A's results; once search has returned,
\* B was asked exactly when A yielded fewer than max_results results, a
\* failed or empty answer of A included.
C22_SecondEngineOnShortfall ==
    [][/\ asked' # asked /\ asked' # <<>> =>
            \/ /\ pc = "web"
               /\ asked' = <<[engine |-> "duckduckgo",
                              max_results |-> request.max_results]>>
            \/ /\ pc = "duckduckgo" /\ pc' = "bing"
               /\ Len(asked) = 1
               /\ asked' = Append(asked,
                     [engine |-> "bing",
                      max_results |->
                          IntArg(request.max_results.n - Len(results'))])
               /\ FromDuckduckgo(results') = 1..Len(results')
               /\ Len(results') < request.max_results.n
       /\ SearchReturned' =>
            /\ Len(asked') \in {1, 2}
            /\ asked'[1].engine = "duckduckgo"
            /\ Len(asked') = 2 <=>
                  Cardinality(FromDuckduckgo(results')) < request'.max_results.n
            /\ Len(asked') = 2 =>
                  /\ asked'[2].engine = "bing"
                  /\ asked'[2].max_results.n =
                        request'.max_results.n
                            - Cardinality(FromDuckduckgo(results'))
            /\ Len(asked') = 1 =>
                  FromDuckduckgo(results') = 1..Len(results')]_vars

\* Reached: engine A yielded one result of the two wanted and engine B was
\* asked for the one missing.
C22_Witness ==
    /\ SearchReturned
    /\ request.max_results = IntArg(2)
    /\ Len(asked) = 2
    /\ asked[2] = [engine |-> "bing", max_results |-> IntArg(1)]
    /\ Cardinality(FromDuckduckgo(results)) = 1
    /\ Len(results) = 2

\* C26: the context handed to the LLM holds exactly the first
\* min(max_results, n) of the n combined results (documents, then web),
\* each labelled by its type and title; the response's sources are the
\* first min(5, n) of the same list; with n = 0 the context is the fixed
\* text, and the LLM is called once all the same.
C26_ContextIsPrefix ==
    (pc \in {"llm", "done"} /\ raisedAt = None) =>
        LET n == Len(all_results)
            m == Min(request.max_results.n, n)
        IN  /\ Len(context.parts) = m
            /\ \A i \in 1..m :
                  /\ context.parts[i].label = all_results[i].source_type
                  /\ context.parts[i].title = all_results[i].source
            /\ (m = 0) = (context.text = "No relevant context found.")
            /\ \A i, k \in 1..n :
                  (all_results[i].source_type = "document"
                      /\ all_results[k].source_type = "web") => i < k
            /\ pc = "llm" => llmCalls = 0
            /\ pc = "done" =>
                  /\ llmCalls = 1
                  /\ Len(response.sources) = Min(5, n)
                  /\ \A i \in 1..Min(5, n) :
                        /\ response.sources[i].type = all_results[i].source_type
                        /\ response.sources[i].source = all_results[i].source
                        /\ response.sources[i].score = all_results[i].score

\* Reached: seven results, documents and web, of which the context holds
\* the first five and the sources list the first five.
C26_Witness ==
    /\ pc = "done" /\ raisedAt = None
    /\ request.max_results = IntArg(DefaultMaxResults)
    /\ Len(all_results) = 7
    /\ all_results[1].source_type = "document"
    /\ all_results[7].source_type = "web"
    /\ Len(context.parts) = 5
    /\ Len(response.sources) = 5

\* The results of `rs` that come from the document index.
FromDocuments(rs) == {i \in 1..Len(rs) : rs[i].source_type = "document"}

\* C28: in a HYBRID_SEARCH call with both include flags on, both searches
\* are performed, the document results precede the web results in the
\* combined list, and when the document search returned max_results
\* results the context holds no web result, while total_sources counts
\* the web results too.
C28_DocumentsCrowdOutWeb ==
    (/\ pc \in {"llm", "done"} /\ raisedAt = None
     /\ task_type = HYBRID_SEARCH
     /\ request.include_web /\ request.include_documents) =>
        LET docs == FromDocuments(all_results)
        IN  /\ docCalls = 1 /\ webCalls = 1
            /\ docs = 1..Cardinality(docs)
            /\ Len(all_results) = Cardinality(docs) + Len(web_results)
            /\ \A i \in 1..Len(web_results) :
                  all_results[Cardinality(docs) + i] = web_results[i]
            /\ Cardinality(docs) = request.max_results.n =>
                  \A i \in 1..Len(context.parts) :
                      context.parts[i].label = "document"
            /\ pc = "done" => response.total_sources = Len(all_results)

\* Reached: the document search returned the two results wanted, the web
\* search two more; the context is made of the documents alone and
\* total_sources is four.
C28_Witness ==
    /\ pc = "done" /\ raisedAt = None
    /\ task_type = HYBRID_SEARCH
    /\ request.include_web /\ request.include_documents
    /\ request.max_results = IntArg(2)
    /\ Cardinality(FromDocuments(all_results)) = 2
    /\ Len(web_results) = 2
    /\ Len(context.parts) = 2
    /\ \A i \in 1..2 : context.parts[i].label = "document"
    /\ response.total_sources = 4

\* C30: when the LLM call fails, the response is not the handler's error
\* mapping: the answer is the provider's error string, task_type is the
\* classified type, and confidence, sources, has_sources and total_sources
\* are those of a call that succeeded (confidence 85 whenever there are
\* results).
C30_LlmFailureLooksNormal ==
    (pc = "done" /\ "llm" \in caught) =>
        LET n == Len(all_results)
        IN  /\ raisedAt = None
            /\ response.answer = LlmErrorText
            /\ response.answer # "Error processing question"
            /\ response.task_type = task_type
            /\ response.task_type \in TaskType
            /\ response.confidence = IF n > 0 THEN 85 ELSE 0
            /\ response.has_sources = (n > 0)
            /\ response.total_sources = n
            /\ Len(response.sources) = Min(5, n)
            /\ \A i \in 1..Min(5, n) :
                  response.sources[i] =
                      [type |-> all_results[i].source_type,
                       title |-> all_results[i].source,
                       source |-> all_results[i].source,
                       score |-> all_results[i].score]

\* Reached: retrieval returned results, the LLM call failed, and the
\* response carries the error string with confidence 85.
C30_Witness ==
    /\ pc = "done"
    /\ "llm" \in caught
    /\ all_results # <<>>
    /\ response.answer = LlmErrorText
    /\ response.confidence = 85
    /\ response.has_sources

(***************************************************************************)
(* Properties of load_documents and the index (checked under SpecLoad).    *)
(***************************************************************************)
Range(seq) == {seq[i] : i \in 1..Len(seq)}

\* The Document process_document builds from the file as it is now.
Built(f) == process_document(f, fs[f])

\* Every chunk of the document, under the settings in force, is indexed.
FullyIndexed(document) ==
    LET made == create_chunks(document.word_count, settings.chunk_size,
                              settings.chunk_overlap)
    IN  /\ ~made.raised
        /\ \A i \in 1..Len(made.chunks) :
              \E k \in 1..Len(index) : index[k].id = <<document.id, i - 1>>

\* A turn of the loop over file_paths.
LoadFileStep == lpc = "loop" /\ file_paths # <<>> /\ file_paths' = Tail(file_paths)

\* No chunk id twice; of one file the registry and the index hold at most
\* one Document id per version (the modification time starts at 1 and moves
\* by 1 with every write).
C5_Ids ==
    /\ \A i, j \in 1..Len(index) : index[i].id = index[j].id => i = j
    /\ \A f \in Files :
          /\ Cardinality({d.id : d \in {e \in documents : e.title = f}})
                <= fs[f].mtime
          /\ Cardinality({index[k].doc_id[2] :
                            k \in {n \in 1..Len(index) : index[n].doc_id[1] = f}})
                <= fs[f].mtime

\* A turn on a file whose chunks are all indexed leaves the index as it is.
C5_Step ==
    LoadFileStep =>
       LET document == Built(Head(file_paths))
       IN  document.raised \/ FullyIndexed(document) => index' = index

\* C5 (as amended): loading an unchanged file again yields the same
\* Document.id and the same chunk ids, and adds no entry for a chunk id the
\* index holds, so no chunk id ever occurs twice; the load leaves the index
\* unchanged when every chunk of the file is indexed already.
C5_Idempotent == [](C5_Ids) /\ [][C5_Step]_vars

\* The lease was loaded twice, unchanged: its three chunks are there once.
C5_Witness ==
    /\ lpc = "done"
    /\ lpath = "lease.txt"
    /\ reloaded = {"lease.txt"}
    /\ readded = 0
    /\ Len(index) = 3
    /\ FullyIndexed(Built("lease.txt"))

\* C5 as stated: a load of a file whose Document is registered already (the
\* same path, modification time and settings) adds no entry.
C5_SecondLoadAddsNothing == readded = 0

\* C7: each discovered file is processed once, whatever happened to the
\* others; the mapping has one entry per discovered file, an error entry
\* for a file process_document fails on; of three files with one corrupt,
\* two are successes and one is an error.
C7_OneEntryPerFile ==
    /\ lpc = "loop" => DOMAIN lresults = Range(processed)
    /\ lpc = "done" /\ lraised = None =>
          /\ processed = found
          /\ DOMAIN lresults = Range(found)
          /\ \A f \in Range(found) :
                lresults[f] = IF Built(f).raised THEN "error" ELSE "success"
          /\ Len(found) = 3 /\ Cardinality({f \in Range(found) : Built(f).raised}) = 1
                => /\ Cardinality({f \in Range(found) : lresults[f] = "success"}) = 2
                   /\ Cardinality({f \in Range(found) : lresults[f] = "error"}) = 1

\* The directory with the corrupt deed: two successes and one error.
C7_Witness ==
    /\ lpc = "done"
    /\ lpath = "documents"
    /\ Len(found) = 3
    /\ fs["deed.pdf"].body = "corrupt"
    /\ lresults["deed.pdf"] = "error"
    /\ lresults["lease.txt"] = "success"
    /\ lresults["notes.md"] = "success"

\* C8: a file whose add_document failed has an error entry in the mapping.
C8_IndexFailureReported ==
    lpc = "done" /\ lraised = None =>
       \A f \in unindexed : lresults[f] = "error"

\* The path of the call does not exist, is a file with an unsupported
\* suffix, or is a directory without a supported file.
BadPath ==
    \/ lpath = "missing"
    \/ lpath \in Files /\ ~fs[lpath].present
    \/ lpath \in Files /\ fs[lpath].present /\ Suffix(lpath) \notin supported_extensions
    \/ /\ lpath = "documents"
       /\ \A f \in Files : fs[f].present => Suffix(f) \notin supported_extensions

C9_State ==
    lpc # "idle" /\ BadPath =>
       /\ lpc = "done"
       /\ lraised = "ValueError"
       /\ processed = <<>>
       /\ lresults = EmptyMapping

C9_Step ==
    lpc = "idle" /\ lpc' = "done" =>
       /\ lraised' = "ValueError"
       /\ documents' = documents
       /\ index' = index

\* C9: for a path that does not exist, a single file with an unsupported
\* suffix or a directory without a supported file, load_documents raises a
\* ValueError before it processes any file, and leaves the registry and the
\* index unchanged.
C9_FailFast == [](C9_State) /\ [][C9_Step]_vars

\* After documents were loaded, a file with an unsupported suffix is refused.
C9_Witness ==
    /\ lpc = "done"
    /\ lpath = "notes.bin"
    /\ lraised = "ValueError"
    /\ documents # {}
    /\ index # <<>>

\* C23: add_document performs no embedding and no insert for a chunk
\* whose id the index holds (the stored entry stays, the first writer
\* wins), also when the chunk settings changed between the runs.
C23_NoCallForKnownId == \A c \in storeCalls : ~c.held

\* The index only grows: every entry stays where it was.
IndexKept ==
    /\ Len(index') >= Len(index)
    /\ \A k \in 1..Len(index) : index'[k] = index[k]

\* C29 as stated: no operation removes or overwrites an index entry or a
\* registry document (the restart of the process, which empties the
\* registry in memory, is no operation of the system).
C29_NothingOverwritten ==
    [][restarts' = restarts => IndexKept /\ documents \subseteq documents']_vars

\* C29, amended: no operation removes or changes an index entry, and no
\* operation removes a Document id from the registry; loading a file again
\* replaces the Document registered under its id by a newly built one of
\* the same file version, and the chunks and the Document of an earlier
\* version of a file stay beside those of the new version.
C29_OnlyGrows ==
    [][restarts' = restarts =>
          /\ IndexKept
          /\ \A d \in documents :
                \E e \in documents' :
                    /\ e.id = d.id /\ e.title = d.title
                    /\ e.word_count = d.word_count
                    /\ e.created_at >= d.created_at
          /\ \A d \in documents :
                d.title \notin Range(processed') \ Range(processed)
                    => d \in documents']_vars

\* Reached: the lease was loaded, written again and loaded again; the index
\* holds chunks of both versions and the registry both Documents.
C29_Witness ==
    /\ \E k \in 1..Len(index) : index[k].doc_id = <<"lease.txt", 1>>
    /\ \E k \in 1..Len(index) : index[k].doc_id = <<"lease.txt", 2>>
    /\ \E d \in documents : d.id = <<"lease.txt", 1>>
    /\ \E d \in documents : d.id = <<"lease.txt", 2>>

(***************************************************************************)
(* Properties of create_chunks (checked under SpecChunk).                  *)
(***************************************************************************)
\* The number of words of a text, counted by where its words begin.
WordCount(text) ==
    Cardinality({i \in 1..Len(text) :
                    text[i] # " " /\ (i = 1 \/ text[i - 1] = " ")})

\* C14: with 0 <= overlap < chunk_size the chunks start at 0, s, 2s, ...
\* for s = chunk_size - overlap, each holds the words from its start to
\* min(start + chunk_size, n), every word of the text lies in a chunk, and
\* a text with no word yields no chunk.
C14_ChunksCoverText ==
    chunker.pc = "done" /\ chunker.overlap < chunker.chunk_size =>
       LET n == WordCount(chunker.text)
           s == chunker.chunk_size - chunker.overlap
           cs == chunker.chunks
       IN  /\ ~chunker.raised
           /\ \A k \in 1..Len(cs) :
                 /\ cs[k].start_pos = (k - 1) * s
                 /\ cs[k].start_pos < n
                 /\ cs[k].end_pos = Min(cs[k].start_pos + chunker.chunk_size, n)
           /\ \A w \in 0..(n - 1) :
                 \E k \in 1..Len(cs) : cs[k].start_pos <= w /\ w < cs[k].end_pos
           /\ n = 0 => cs = <<>>

\* Five words in chunks of three with overlap one: the starts are 0, 2, 4
\* and the last chunk is short.
C14_Witness ==
    /\ chunker.pc = "done"
    /\ WordCount(chunker.text) = 5
    /\ chunker.chunk_size = 3
    /\ chunker.overlap = 1
    /\ Len(chunker.chunks) = 3
    /\ chunker.chunks[3] = [start_pos |-> 4, end_pos |-> 5]

\* C20: for a text with a word and an overlap >= chunk_size, create_chunks
\* ends with an error; it does not return a chunk list.
C20_OverlapGuarded ==
    /\ chunker.pc = "done"
    /\ chunker.overlap >= chunker.chunk_size
    /\ WordCount(chunker.text) > 0
    => chunker.raised

(***************************************************************************)
(* Properties of classify (checked under SpecClassify).                    *)
(***************************************************************************)
\* The question holds one of these words, in capitals or not.
Holds(cues) == \E w \in classifier.query.words : lower(w) \in cues

\* C15: classify returns SUMMARIZATION for a question with a summarization
\* cue, else WEB_SEARCH for one with a freshness or market cue, else
\* DOCUMENT_QUERY for one with a document cue, else HYBRID_SEARCH; every call
\* on the same question returns the same task type.
C15_ClassifyFirstMatch ==
    classifier.pc = "call" /\ classifier.n > 0 =>
       /\ classifier.task_type =
             IF Holds({"summarize", "summary", "overview"}) THEN SUMMARIZATION
             ELSE IF Holds({"current", "latest", "news", "market"}) THEN WEB_SEARCH
             ELSE IF Holds({"contract", "document", "clause", "agreement"})
             THEN DOCUMENT_QUERY
             ELSE HYBRID_SEARCH
       /\ classifier.task_type = classifier.first
       /\ Holds({"summarize", "summary", "overview"}) /\ Holds({"contract"})
             => classifier.task_type = SUMMARIZATION

\* "Summarize" and "contract" and "latest" in one question, classified
\* twice: SUMMARIZATION both times.
C15_Witness ==
    /\ classifier.pc = "call"
    /\ classifier.n = 2
    /\ classifier.query.words = {"Summarize", "contract", "latest"}
    /\ classifier.first = SUMMARIZATION
    /\ classifier.task_type = SUMMARIZATION

(***************************************************************************)
(* Properties of the interactive program (checked under SpecCli).          *)
(***************************************************************************)
\* C18: after a successful initialization the program ends only by a quit
\* word or an interrupt at the question prompt: no failure of loading the
\* documents or of answering a question ends it.
C18_OnlyTheUserEnds ==
    cli.pc = "ended" /\ cli.exit \notin {"no_api_key", "init_error"} =>
       cli.exit \in {"quit", "interrupt"}

(***************************************************************************)
(* Properties of concurrent add_document calls (checked under SpecAdd).    *)
(***************************************************************************)
BothEnded ==
    /\ adders.pc = "run"
    /\ \A c \in Callers : adders.calls[c].pc \in {"done", "failed"}

\* The chunk ids of the document under the settings in force.
ChunkIds ==
    LET made == create_chunks(adders.document.word_count, settings.chunk_size,
                              settings.chunk_overlap)
    IN  {<<adders.document.id, k - 1>> : k \in 1..Len(made.chunks)}

StrategyFails(name) ==
    LET got == Convert(name, processing.f, processing.file)
    IN  got.kind # "value" \/ got.value = 0

\* C24: process_document tries markitdown, then docx, then text; it returns
\* the Document of the first strategy whose text is not blank and records
\* it as processor_used; a strategy that raises or returns blank text does
\* not end the call, no strategy runs after the one that succeeded, and the
\* call raises (once, after the loop) only when no strategy succeeded.
C24_FirstStrategyThatWorks ==
    LET order == <<"markitdown", "docx", "text">>
        n == Len(processing.tried)
    IN  processing.pc # "off" =>
          /\ n <= Len(order)
          /\ \A i \in 1..n : processing.tried[i] = order[i]
          /\ \A i \in 1..n - 1 : StrategyFails(processing.tried[i])
          /\ processing.pc = "loop" =>
                /\ processing.raised = None
                /\ processing.document = NoDocument
                /\ \A i \in 1..n : StrategyFails(processing.tried[i])
          /\ (processing.pc = "done" /\ processing.raised = None) =>
                /\ n >= 1
                /\ ~StrategyFails(processing.tried[n])
                /\ ~processing.document.raised
                /\ processing.document.processor_used = processing.tried[n]
                /\ processing.document = process_document(processing.f, processing.file)
          /\ (processing.pc = "done" /\ processing.raised # None) =>
                /\ processing.document = NoDocument
                /\ process_document(processing.f, processing.file).raised
                /\ processing.raised = "All processors failed" <=>
                      /\ supports_file(processing.f)
                      /\ processing.file.present
                      /\ processing.tried = order
                      /\ \A i \in 1..n : StrategyFails(order[i])
                /\ processing.raised # "All processors failed" => n = 0

\* Reached: MarkItDown raised on the .docx file, python-docx read it and
\* the Document carries processor_used = "docx"; the text strategy did
\* not run.
C24_Witness ==
    /\ processing.pc = "done"
    /\ processing.f = "form.docx"
    /\ processing.file.body = "legacy"
    /\ processing.tried = <<"markitdown", "docx">>
    /\ processing.last_error = "markitdown"
    /\ processing.raised = None
    /\ processing.document.processor_used = "docx"


(***************************************************************************)
(* Properties of LLMProvider.__init__ (checked under SpecProvider).        *)
(***************************************************************************)
\* Probe i of the construction failed.
ProbeFailed(i) == provider.probes[i].outcome # "ok"

\* C25: the construction probes the preferred model and then the four
\* fallbacks, in that order; it adopts the first candidate whose probe
\* succeeds and probes none after it; a probe error of either kind only
\* sends it to the next candidate; it raises exactly when every probe
\* failed, and then no model is adopted.
C25_FirstWorkingModel ==
    LET order == <<provider.preferred, "gpt-4o-mini", "gpt-4o", "gpt-4",
                   "gpt-4.1-mini-2025-04-14">>
        n == Len(provider.probes)
    IN  provider.pc # "off" =>
          /\ n <= Len(order)
          /\ \A i \in 1..n : provider.probes[i].model = order[i]
          /\ \A i \in 1..n - 1 : ProbeFailed(i)
          /\ provider.pc = "probing" =>
                /\ provider.model = None /\ provider.raised = None
                /\ \A i \in 1..n : ProbeFailed(i)
          /\ provider.pc = "ready" =>
                /\ n >= 1 /\ ~ProbeFailed(n)
                /\ provider.model = order[n]
                /\ provider.raised = None
          /\ provider.pc = "failed" =>
                /\ provider.model = None /\ provider.raised # None
          /\ provider.pc \in {"ready", "failed"} =>
                (provider.pc = "failed" <=>
                    n = Len(order) /\ \A i \in 1..n : ProbeFailed(i))

\* Reached: the preferred model's probe met another error, the first
\* fallback does not exist, the second fallback answered and is adopted.
C25_Witness ==
    /\ provider.pc = "ready"
    /\ provider.preferred = "o-custom"
    /\ Len(provider.probes) = 3
    /\ provider.probes[1].outcome = "error"
    /\ provider.probes[2].outcome = "model_not_found"
    /\ provider.model = "gpt-4o"


(***************************************************************************)
(* Properties of overlapping ask_question calls (checked under             *)
(* SpecOverlap).                                                           *)
(***************************************************************************)
\* C27: when two web-searching ask_question calls overlap, every engine
\* request leaves on a session that is open, no session is closed while a
\* request of a call is in flight on it, and once both calls have returned
\* every session that was created is closed.
C27_SessionsPerCall ==
    inflight.pc = "run" =>
        /\ \A c \in Callers :
              /\ ~inflight.calls[c].onClosed
              /\ inflight.calls[c].pc \in {"duckduckgo", "bing"} =>
                    sessions[inflight.calls[c].on] = "open"
        /\ (\A c \in Callers : inflight.calls[c].pc = "returned") =>
              \A i \in 1..Len(sessions) : sessions[i] = "closed"

====
